---- MODULE Spec2Model ----
(***************************************************************************)
(* Flight Delay Explorer: the retrieval client (get_flights with its       *)
(* retry/backoff loop), the file parser (parse_file) and the per-record    *)
(* normalization and delay classification both of them use.                *)
(*                                                                         *)
(* Python strings are sequences of one-character strings; JSON values are  *)
(* tagged records (JNull, JStr, JInt, JObj...), a missing key is JAbsent.  *)
(***************************************************************************)
EXTENDS Integers, Sequences, FiniteSets, TLC

VARIABLES
    max_retries,   \* Settings.max_retries of the client (config.py)
    pc,            \* get_flights: "idle", "loop", "request", "sleep429", "sleepErr", "returned", "raised"
    attempt,       \* get_flights: the loop variable `attempt`
    clientOpen,    \* get_flights: number of httpx.Client contexts currently open
    events,        \* get_flights: attempts made and sleeps taken by the current call, in order
    result,        \* get_flights: the returned list, JList(<<FlightRecord, ...>>), or NoResult
    raisedExc,     \* get_flights: the exception raised to the caller, or NoExc
    callsLeft,     \* get_flights: the calls the caller is still going to make on this client
    clsStatus,     \* classification: the flight_status argument
    clsDelay,      \* classification: the delay_minutes argument
    clsClient,     \* classification: result of AviationStackClient._determine_delay_category
    clsParser,     \* classification: result of FlightDataParser._determine_delay_category
    rawEntry,      \* normalization: the one raw entry of a data list
    apiOut,        \* normalization: what get_flights makes of a 200 response with that list
    fileOut,       \* normalization: what _parse_json_data makes of a file with that list
    fileState,     \* parse_file: what the path holds
    fpc,           \* parse_file: "start", "loading", "parsing", "returned", "raised"
    fileReads,     \* parse_file: number of times the file was opened and read
    fileData,      \* parse_file: the loaded JSON value
    fileResult,    \* parse_file: the returned list, JList(<<FlightRecord, ...>>), or NoResult
    fileExc,       \* parse_file: the exception raised, or NoExc
    sumRecords,    \* summary: the list of FlightRecord given to _generate_summary_stats
    sumStats,      \* summary: the dict it returned
    cpc,           \* fetch command: "start", "settings", "client", "fetch", "fetching", "save",
                   \*                "display", "exited"
    cliDate,       \* fetch command: the --flight-date argument
    cliEnv,        \* fetch command: the environment variables Settings() reads
    exitCode,      \* fetch command: the exit code of the process, -1 while it runs
    cliOut         \* fetch command: what it has done so far (settings loaded, client built,
                   \*                calls of get_flights, file written, table printed, ...)

vars == <<max_retries, pc, attempt, clientOpen, events, result, raisedExc, callsLeft,
          clsStatus, clsDelay, clsClient, clsParser,
          rawEntry, apiOut, fileOut,
          fileState, fpc, fileReads, fileData, fileResult, fileExc,
          sumRecords, sumStats,
          cpc, cliDate, cliEnv, exitCode, cliOut>>

fetchVars == <<max_retries, pc, attempt, clientOpen, events, result, raisedExc, callsLeft>>
clsVars == <<clsStatus, clsDelay, clsClient, clsParser>>
recVars == <<rawEntry, apiOut, fileOut>>
fileVars == <<fileState, fpc, fileReads, fileData, fileResult, fileExc>>
sumVars == <<sumRecords, sumStats>>
cliVars == <<cpc, cliDate, cliEnv, exitCode, cliOut>>

----------------------------------------------------------------------------
(* Bounds of the model *)

\* largest configured max_retries explored
MaxRetries == 3
\* longest data list explored in a response body or a file
MaxEntries == 2
\* longest list of records explored in the summary statistics
MaxSummary == 3
\* classification is explored for every delay in -MaxDelay..MaxDelay
MaxDelay == 185

----------------------------------------------------------------------------
(* Python strings *)

UpperChars == <<"A","B","C","D","E","F","G","H","I","J","K","L","M",
                "N","O","P","Q","R","S","T","U","V","W","X","Y","Z">>
LowerChars == <<"a","b","c","d","e","f","g","h","i","j","k","l","m",
                "n","o","p","q","r","s","t","u","v","w","x","y","z">>

\* str.lower() on one character
LowerChar(c) ==
    IF \E i \in 1..Len(UpperChars) : UpperChars[i] = c
    THEN LowerChars[CHOOSE i \in 1..Len(UpperChars) : UpperChars[i] = c]
    ELSE c

\* mutant: the status is compared without lower-casing it
LowerOmitted(s) == s

\* str.lower()
Lower(s) == [i \in 1..Len(s) |-> LowerChar(s[i])]

Whitespace == {" ", "\t", "\n", "\r"}

RECURSIVE LStrip(_)
LStrip(s) ==
    IF s # <<>> /\ Head(s) \in Whitespace THEN LStrip(Tail(s)) ELSE s

RECURSIVE RStrip(_)
RStrip(s) ==
    IF s # <<>> /\ s[Len(s)] \in Whitespace
    THEN RStrip(SubSeq(s, 1, Len(s) - 1))
    ELSE s

\* str.strip()
Strip(s) == RStrip(LStrip(s))

\* `c in s`
Contains(s, c) == \E i \in 1..Len(s) : s[i] = c

\* str.split(c): the parts between the occurrences of c (always at least one part)
RECURSIVE Split(_, _)
Split(s, c) ==
    IF ~Contains(s, c) THEN <<s>>
    ELSE LET k == CHOOSE i \in 1..Len(s) :
                      s[i] = c /\ \A j \in 1..(i - 1) : s[j] # c
         IN <<SubSeq(s, 1, k - 1)>> \o Split(SubSeq(s, k + 1, Len(s)), c)

\* str.zfill(2): left-pad with "0" to width 2, after a leading sign if any
Zfill2(s) ==
    IF Len(s) >= 2 THEN s
    ELSE IF Len(s) = 0 THEN <<"0", "0">>
    ELSE IF s[1] \in {"+", "-"} THEN <<s[1], "0">>
    ELSE <<"0", s[1]>>

----------------------------------------------------------------------------
(* JSON values and the DelayCategory enumeration *)

JAbsent == [t |-> "absent"]                  \* the key is not in the dict
JNull == [t |-> "null"]                      \* None
JStr(s) == [t |-> "str", s |-> s]
JInt(n) == [t |-> "int", n |-> n]

IsStr(v) == v.t = "str"
IsInt(v) == v.t = "int"
IsObj(v) == v.t = "obj"

\* mutant: dict.get(key) without the default
GetOrNoDefault(v, default) == IF v.t = "absent" THEN JNull ELSE v

\* dict.get(key, default) once the key's slot has been read
GetOr(v, default) == IF v.t = "absent" THEN default ELSE v

\* mutant: only None counts as missing (`is None` for `not`)
TruthyNotNone(v) == v.t \notin {"absent", "null"}

\* Python truthiness of a JSON value (`not v` is its negation)
Truthy(v) ==
    CASE v.t = "absent" -> FALSE
      [] v.t = "null" -> FALSE
      [] v.t = "str" -> v.s # <<>>
      [] v.t = "int" -> v.n # 0
      [] OTHER -> TRUE

CANCELLED == "cancelled"
DIVERTED == "diverted"
ON_TIME == "on time"
MAJOR_DELAY == "major delay"
MINOR_DELAY == "minor delay"
SEVERE_DELAY == "severe delay"

DelayCategory == {CANCELLED, DIVERTED, ON_TIME, MAJOR_DELAY, MINOR_DELAY, SEVERE_DELAY}

sCancelled == <<"c","a","n","c","e","l","l","e","d">>
sDiverted == <<"d","i","v","e","r","t","e","d">>

\* outcome of a call: a value, or the exception it raised
Ok(v) == [ok |-> TRUE, v |-> v]
Raise(e) == [ok |-> FALSE, exc |-> e]

----------------------------------------------------------------------------
(* Delay classification *)

\* mutant: the boundaries taken exclusive (< for <=)
ClientDetermineDelayCategoryExclusive(flight_status, delay_minutes) ==
    IF flight_status = sCancelled THEN Ok(CANCELLED)
    ELSE IF flight_status = sDiverted THEN Ok(DIVERTED)
    ELSE LET d == IF delay_minutes.t = "null" THEN JInt(0) ELSE delay_minutes
         IN IF ~IsInt(d) THEN Raise("TypeError")
            ELSE IF d.n < 15 THEN Ok(ON_TIME)
            ELSE IF d.n < 60 THEN Ok(MINOR_DELAY)
            ELSE IF d.n < 180 THEN Ok(MAJOR_DELAY)
            ELSE Ok(SEVERE_DELAY)

\* mutant: `if delay_minutes is None: delay_minutes = 0` left out
ClientDetermineDelayCategoryNoneKept(flight_status, delay_minutes) ==
    IF flight_status = sCancelled THEN Ok(CANCELLED)
    ELSE IF flight_status = sDiverted THEN Ok(DIVERTED)
    ELSE IF ~IsInt(delay_minutes) THEN Raise("TypeError")
    ELSE IF delay_minutes.n <= 15 THEN Ok(ON_TIME)
    ELSE IF delay_minutes.n <= 60 THEN Ok(MINOR_DELAY)
    ELSE IF delay_minutes.n <= 180 THEN Ok(MAJOR_DELAY)
    ELSE Ok(SEVERE_DELAY)

\* AviationStackClient._determine_delay_category(flight_status, delay_minutes):
\* flight_status is a str, delay_minutes any JSON value
ClientDetermineDelayCategory(flight_status, delay_minutes) ==
    IF flight_status = sCancelled THEN Ok(CANCELLED)
    ELSE IF flight_status = sDiverted THEN Ok(DIVERTED)
    ELSE LET d == IF delay_minutes.t = "null" THEN JInt(0) ELSE delay_minutes
         IN IF ~IsInt(d) THEN Raise("TypeError")
            ELSE IF d.n <= 15 THEN Ok(ON_TIME)
            ELSE IF d.n <= 60 THEN Ok(MINOR_DELAY)
            ELSE IF d.n <= 180 THEN Ok(MAJOR_DELAY)
            ELSE Ok(SEVERE_DELAY)

\* mutant: the file parser's thresholds are exclusive
ParserDetermineDelayCategoryExclusive(flight_status, delay_minutes) ==
    IF flight_status = sCancelled THEN Ok(CANCELLED)
    ELSE IF flight_status = sDiverted THEN Ok(DIVERTED)
    ELSE IF ~IsInt(delay_minutes) THEN Raise("TypeError")
    ELSE IF delay_minutes.n < 15 THEN Ok(ON_TIME)
    ELSE IF delay_minutes.n < 60 THEN Ok(MINOR_DELAY)
    ELSE IF delay_minutes.n < 180 THEN Ok(MAJOR_DELAY)
    ELSE Ok(SEVERE_DELAY)

\* FlightDataParser._determine_delay_category(flight_status, delay_minutes)
ParserDetermineDelayCategory(flight_status, delay_minutes) ==
    IF flight_status = sCancelled THEN Ok(CANCELLED)
    ELSE IF flight_status = sDiverted THEN Ok(DIVERTED)
    ELSE IF ~IsInt(delay_minutes) THEN Raise("TypeError")
    ELSE IF delay_minutes.n <= 15 THEN Ok(ON_TIME)
    ELSE IF delay_minutes.n <= 60 THEN Ok(MINOR_DELAY)
    ELSE IF delay_minutes.n <= 180 THEN Ok(MAJOR_DELAY)
    ELSE Ok(SEVERE_DELAY)

----------------------------------------------------------------------------
(* Raw entries and FlightRecord *)

\* a JSON object with the keys the program reads; a key that is missing holds JAbsent
JObj(icao, delay) == [t |-> "obj", icao |-> icao, delay |-> delay]
EmptyObj == JObj(JAbsent, JAbsent)                      \* the default {}
JEntry(flight_date, flight, departure, arrival, flight_status) ==
    [t |-> "obj", flight_date |-> flight_date, flight |-> flight,
     departure |-> departure, arrival |-> arrival, flight_status |-> flight_status]

\* models.FlightRecord (a dataclass: the field values are stored as given)
FlightRecord(arrival_delay, destination_icao, flight_date, flight_icao, flight_status, origin_icao) ==
    [arrival_delay |-> arrival_delay, destination_icao |-> destination_icao,
     flight_date |-> flight_date, flight_icao |-> flight_icao,
     flight_status |-> flight_status, origin_icao |-> origin_icao]

sDash == <<"-">>

\* mutant: the dash format read day first (DD-MM-YYYY)
NormalizeDateFormatDayFirst(date_str) ==
    LET s == Strip(date_str)
        bySlash == Split(s, "/")
        byDash == Split(s, "-")
    IN IF Len(s) = 10 /\ s[5] = "-" /\ s[8] = "-" THEN s
       ELSE IF Contains(s, "/") /\ Len(bySlash) = 3 /\ Len(bySlash[1]) = 4
            THEN bySlash[1] \o sDash \o Zfill2(bySlash[2]) \o sDash \o Zfill2(bySlash[3])
       ELSE IF Contains(s, "/") /\ Len(bySlash) = 3 /\ Len(bySlash[3]) = 4
            THEN bySlash[3] \o sDash \o Zfill2(bySlash[1]) \o sDash \o Zfill2(bySlash[2])
       ELSE IF Contains(s, "-") /\ Len(byDash) = 3 /\ Len(byDash[3]) = 4
            THEN byDash[3] \o sDash \o Zfill2(byDash[2]) \o sDash \o Zfill2(byDash[1])
       ELSE s

\* mutant: the YYYY/M/D branch emits the year last
NormalizeDateFormatYearLast(date_str) ==
    LET s == Strip(date_str)
        bySlash == Split(s, "/")
        byDash == Split(s, "-")
    IN IF Len(s) = 10 /\ s[5] = "-" /\ s[8] = "-" THEN s
       ELSE IF Contains(s, "/") /\ Len(bySlash) = 3 /\ Len(bySlash[1]) = 4
            THEN Zfill2(bySlash[2]) \o sDash \o Zfill2(bySlash[3]) \o sDash \o bySlash[1]
       ELSE IF Contains(s, "/") /\ Len(bySlash) = 3 /\ Len(bySlash[3]) = 4
            THEN bySlash[3] \o sDash \o Zfill2(bySlash[1]) \o sDash \o Zfill2(bySlash[2])
       ELSE IF Contains(s, "-") /\ Len(byDash) = 3 /\ Len(byDash[3]) = 4
            THEN byDash[3] \o sDash \o Zfill2(byDash[1]) \o sDash \o Zfill2(byDash[2])
       ELSE s

\* FlightDataParser._normalize_date_format(date_str), date_str a str
NormalizeDateFormat(date_str) ==
    LET s == Strip(date_str)
        bySlash == Split(s, "/")
        byDash == Split(s, "-")
    IN IF Len(s) = 10 /\ s[5] = "-" /\ s[8] = "-" THEN s
       ELSE IF Contains(s, "/") /\ Len(bySlash) = 3 /\ Len(bySlash[1]) = 4
            THEN bySlash[1] \o sDash \o Zfill2(bySlash[2]) \o sDash \o Zfill2(bySlash[3])
       ELSE IF Contains(s, "/") /\ Len(bySlash) = 3 /\ Len(bySlash[3]) = 4
            THEN bySlash[3] \o sDash \o Zfill2(bySlash[1]) \o sDash \o Zfill2(bySlash[2])
       ELSE IF Contains(s, "-") /\ Len(byDash) = 3 /\ Len(byDash[3]) = 4
            THEN byDash[3] \o sDash \o Zfill2(byDash[1]) \o sDash \o Zfill2(byDash[2])
       ELSE s

\* AviationStackClient._parse_flight_record(flight_data): Ok(FlightRecord) or
\* Raise(exception), the checks in the order the code evaluates them
ParseFlightRecord(flight_data) ==
    IF ~IsObj(flight_data) THEN Raise("AttributeError")       \* flight_data.get
    ELSE LET rawStatus == GetOr(flight_data.flight_status, JStr(<<>>))
             arrival == GetOr(flight_data.arrival, EmptyObj)
             flight == GetOr(flight_data.flight, EmptyObj)
             departure == GetOr(flight_data.departure, EmptyObj)
         IN IF ~IsStr(rawStatus) THEN Raise("AttributeError")  \* .lower()
            ELSE IF ~IsObj(arrival) THEN Raise("AttributeError")
            ELSE LET flight_status == Lower(rawStatus.s)
                     rawDelay == GetOr(arrival.delay, JInt(0))
                     status_category ==
                         ClientDetermineDelayCategory(flight_status, rawDelay)
                     arrival_delay == IF rawDelay.t = "null" THEN JInt(0) ELSE rawDelay
                 IN IF ~status_category.ok THEN status_category
                    ELSE IF ~IsObj(flight) THEN Raise("AttributeError")
                    ELSE IF ~IsObj(departure) THEN Raise("AttributeError")
                    ELSE Ok(FlightRecord(
                             arrival_delay,
                             GetOr(arrival.icao, JStr(<<>>)),
                             GetOr(flight_data.flight_date, JStr(<<>>)),
                             GetOr(flight.icao, JStr(<<>>)),
                             status_category.v,
                             GetOr(departure.icao, JStr(<<>>))))

\* mutant: the delay of a cancelled/diverted flight is kept
ResetDelayOmitted(status_category, arrival_delay) == arrival_delay

\* `if status_category in [CANCELLED, DIVERTED]: arrival_delay = 0`
ResetDelay(status_category, arrival_delay) ==
    IF status_category \in {CANCELLED, DIVERTED} THEN JInt(0) ELSE arrival_delay

\* FlightDataParser._parse_flight_data(flight_data)
ParseFlightData(flight_data) ==
    IF ~IsObj(flight_data) THEN Raise("AttributeError")
    ELSE LET rawDate == GetOr(flight_data.flight_date, JNull)
             flight_info == GetOr(flight_data.flight, EmptyObj)
             departure_info == GetOr(flight_data.departure, EmptyObj)
             arrival_info == GetOr(flight_data.arrival, EmptyObj)
             rawStatus == GetOr(flight_data.flight_status, JStr(<<>>))
         IN IF ~Truthy(rawDate) THEN Raise("ValueError")
            ELSE IF ~IsStr(rawDate) THEN Raise("AttributeError")        \* .strip()
            ELSE IF ~IsObj(flight_info) THEN Raise("AttributeError")
            ELSE IF ~Truthy(GetOr(flight_info.icao, JStr(<<>>))) THEN Raise("ValueError")
            ELSE IF ~IsObj(departure_info) THEN Raise("AttributeError")
            ELSE IF ~Truthy(GetOr(departure_info.icao, JStr(<<>>))) THEN Raise("ValueError")
            ELSE IF ~IsObj(arrival_info) THEN Raise("AttributeError")
            ELSE IF ~Truthy(GetOr(arrival_info.icao, JStr(<<>>))) THEN Raise("ValueError")
            ELSE IF ~IsStr(rawStatus) THEN Raise("AttributeError")      \* .lower()
            ELSE LET rawDelay == GetOr(arrival_info.delay, JNull)
                     arrival_delay == IF rawDelay.t = "null" THEN JInt(0) ELSE rawDelay
                     status_category ==
                         ParserDetermineDelayCategory(Lower(rawStatus.s), arrival_delay)
                 IN IF ~status_category.ok THEN status_category
                    ELSE Ok(FlightRecord(
                             ResetDelay(status_category.v, arrival_delay),
                             arrival_info.icao,
                             JStr(NormalizeDateFormat(rawDate.s)),
                             flight_info.icao,
                             status_category.v,
                             departure_info.icao))

\* mutant: the first entry that fails ends the loop
RECURSIVE ParseResponseLoopAbort(_)
ParseResponseLoopAbort(flights) ==
    IF flights = <<>> THEN <<>>
    ELSE LET r == ParseFlightRecord(Head(flights))
         IN IF r.ok THEN <<r.v>> \o ParseResponseLoopAbort(Tail(flights)) ELSE <<>>

\* AviationStackClient._parse_response, the loop over data["data"] (a list)
RECURSIVE ParseResponseLoop(_)
ParseResponseLoop(flights) ==
    IF flights = <<>> THEN <<>>
    ELSE LET r == ParseFlightRecord(Head(flights))
         IN (IF r.ok THEN <<r.v>> ELSE <<>>) \o ParseResponseLoop(Tail(flights))

\* mutant: each record is put in front of the list instead of appended
RECURSIVE ParseJsonLoopPrepend(_)
ParseJsonLoopPrepend(flights_data) ==
    IF flights_data = <<>> THEN <<>>
    ELSE LET r == ParseFlightData(Head(flights_data))
         IN ParseJsonLoopPrepend(Tail(flights_data)) \o (IF r.ok THEN <<r.v>> ELSE <<>>)

\* FlightDataParser._parse_json_data, the loop over data['data'] (a list)
RECURSIVE ParseJsonLoop(_)
ParseJsonLoop(flights_data) ==
    IF flights_data = <<>> THEN <<>>
    ELSE LET r == ParseFlightData(Head(flights_data))
         IN (IF r.ok THEN <<r.v>> ELSE <<>>) \o ParseJsonLoop(Tail(flights_data))

----------------------------------------------------------------------------
(* JSON documents: a response body or the content of a file *)

JList(items) == [t |-> "list", items |-> items]
JDoc(data) == [t |-> "obj", data |-> data]        \* a JSON object, `data` its "data" key
InvalidJson == [t |-> "invalid"]                  \* text that is not JSON (the empty text included)

NoResult == [t |-> "none"]
NoBody == [t |-> "nobody"]
NoExc == [type |-> "none", code |-> 0, at |-> -1]
Exc(type, code, at) == [type |-> type, code |-> code, at |-> at]

\* AviationStackClient._parse_response(data), data the decoded body; get_flights has
\* already evaluated len(data.get("data", [])) on it
ParseResponse(data) ==
    LET flights == GetOr(data.data, JList(<<>>))
    IN ParseResponseLoop(flights.items)

\* mutant: data['data'] for data.get('data', [])
ParseJsonDataIndexing(data) ==
    IF ~IsObj(data) THEN Raise("TypeError")
    ELSE IF data.data.t = "absent" THEN Raise("KeyError")
    ELSE IF data.data.t = "null" THEN Ok(<<>>)
    ELSE IF data.data.items = <<>> THEN Ok(<<>>)
    ELSE Ok(ParseJsonLoop(data.data.items))

\* FlightDataParser._parse_json_data(data): Ok(list) or Raise(exception)
ParseJsonData(data) ==
    IF ~IsObj(data) THEN Raise("AttributeError")              \* data.get
    ELSE LET flights_data == GetOr(data.data, JList(<<>>))
         IN IF flights_data.t = "null" THEN Ok(<<>>)          \* not flights_data
            ELSE IF flights_data.items = <<>> THEN Ok(<<>>)
            ELSE Ok(ParseJsonLoop(flights_data.items))

----------------------------------------------------------------------------
(* get_flights: one attempt of the retry loop *)

RECURSIVE Pow2(_)
Pow2(n) == IF n <= 0 THEN 1 ELSE 2 * Pow2(n - 1)

\* mutant: 2*attempt for 2**attempt
BackoffLinear(i) == 2 * i

\* time.sleep(2**attempt): the seconds slept after the attempt with this index
Backoff(i) == Pow2(i)

\* mutant: the 429 branch is never taken
RateLimitRetryNever(code, i, n) == FALSE

\* mutant: the 429 branch does not look at the attempts left
RateLimitRetryAlways(code, i, n) == code = 429

\* `attempt < self._settings.max_retries - 1`: a 429 is retried inside the with block
RateLimitRetry(code, i, n) == code = 429 /\ i < n - 1

\* mutant: off by one, compared with max_retries
IsLastAttemptOffByOne(i, n) == i = n

\* mutant: the first failure is re-raised at once
IsLastAttemptAlways(i, n) == TRUE

\* `attempt == self._settings.max_retries - 1`: the except blocks re-raise
IsLastAttempt(i, n) == i = n - 1

\* response.raise_for_status() raises HTTPStatusError unless the status is 2xx
RaisesForStatus(code) == ~(code \in 200..299)

\* mutant: a body that cannot be decoded counts as an empty result
TryBlockSwallow(resp, i, n) ==
    IF resp.kind = "connect" THEN Raise("ConnectError")
    ELSE IF resp.kind = "other" THEN Raise("ReadTimeout")
    ELSE IF RateLimitRetry(resp.code, i, n) THEN Raise("continue")
    ELSE IF RaisesForStatus(resp.code) THEN Raise("HTTPStatusError")
    ELSE IF resp.body.t = "invalid" THEN Ok(<<>>)
    ELSE IF ~IsObj(resp.body) THEN Raise("AttributeError")
    ELSE IF resp.body.data.t = "null" THEN Raise("TypeError")
    ELSE Ok(ParseResponse(resp.body))

\* what the try block does with the outcome of client.get: Ok(list) on a return,
\* Raise(exception type) on an exception, [ok |-> FALSE, exc |-> "continue"] on the 429 branch
TryBlock(resp, i, n) ==
    IF resp.kind = "connect" THEN Raise("ConnectError")
    ELSE IF resp.kind = "other" THEN Raise("ReadTimeout")
    ELSE IF RateLimitRetry(resp.code, i, n) THEN Raise("continue")
    ELSE IF RaisesForStatus(resp.code) THEN Raise("HTTPStatusError")
    ELSE IF resp.body.t = "invalid" THEN Raise("JSONDecodeError")        \* response.json()
    ELSE IF ~IsObj(resp.body) THEN Raise("AttributeError")               \* data.get
    ELSE IF resp.body.data.t = "null" THEN Raise("TypeError")            \* len(None)
    ELSE Ok(ParseResponse(resp.body))

\* mutant: the final attempt raises a RuntimeError in place of the exception it caught
AttemptStepWrapped(resp, i, n) ==
    LET t == TryBlock(resp, i, n)
    IN IF t.ok THEN [next |-> "returned", result |-> JList(t.v), exc |-> NoExc]
       ELSE IF t.exc = "continue"
            THEN [next |-> "sleep429", result |-> NoResult, exc |-> NoExc]
       ELSE IF IsLastAttempt(i, n)
            THEN [next |-> "raised", result |-> NoResult, exc |-> Exc("RuntimeError", 0, i)]
       ELSE [next |-> "sleepErr", result |-> NoResult, exc |-> NoExc]

\* the attempt with index i as a whole: where get_flights goes next
\*   next: "returned" | "raised" | "sleep429" (sleeping inside the with block)
\*         | "sleepErr" (sleeping in an except block)
AttemptStep(resp, i, n) ==
    LET t == TryBlock(resp, i, n)
    IN IF t.ok THEN [next |-> "returned", result |-> JList(t.v), exc |-> NoExc]
       ELSE IF t.exc = "continue"
            THEN [next |-> "sleep429", result |-> NoResult, exc |-> NoExc]
       ELSE IF IsLastAttempt(i, n)
            THEN [next |-> "raised", result |-> NoResult,
                  exc |-> Exc(t.exc, IF t.exc = "HTTPStatusError" THEN resp.code ELSE 0, i)]
       ELSE [next |-> "sleepErr", result |-> NoResult, exc |-> NoExc]

AttemptEvent(i, resp) ==
    [e |-> "attempt", i |-> i, kind |-> resp.kind, code |-> resp.code,
     body |-> resp.body, secs |-> 0]
SleepEvent(i, secs) ==
    [e |-> "sleep", i |-> i, kind |-> "sleep", code |-> 0, body |-> NoBody, secs |-> secs]

----------------------------------------------------------------------------
(* Inputs explored *)

sCANCELLED == <<"C","A","N","C","E","L","L","E","D">>
sCancelledMixed == <<"C","a","n","c","e","l","l","e","d">>
sDIVERTED == <<"D","I","V","E","R","T","E","D">>
sDivertedMixed == <<"d","i","V","e","r","t","e","D">>
sLanded == <<"l","a","n","d","e","d">>
sActive == <<"a","c","t","i","v","e">>
sIsoDate == <<"2","0","2","4","-","0","1","-","0","1">>
sSlashDate == <<"2","0","2","4","/","1","/","2">>
sAAL123 == <<"A","A","L","1","2","3">>
sKJFK == <<"K","J","F","K">>
sKLAX == <<"K","L","A","X">>
sLate == <<"l","a","t","e">>

SeqsUpTo(S, n) == UNION {[1..k -> S] : k \in 0..n}

\* arguments of the two _determine_delay_category routines
ClsStatuses == {sCancelled, sDiverted, sCANCELLED, sLanded, sActive, <<>>}
ClsDelays == {JInt(d) : d \in (-MaxDelay)..MaxDelay} \cup {JNull}

\* values of arrival.delay in a raw entry
RawDelays == {JAbsent, JNull, JStr(sLate)} \cup {JInt(d) : d \in {-5, 0, 15, 16, 45, 181}}
\* values of flight_status in a raw entry
RawStatuses == {JAbsent, JNull} \cup
    {JStr(x) : x \in {sCancelled, sCANCELLED, sCancelledMixed,
                      sDiverted, sDivertedMixed, sLanded}}

\* raw entries of a data list
RawEntries ==
    {JEntry(fd, fl, dep, arr, st) :
        fd \in {JAbsent, JStr(<<>>), JStr(sIsoDate), JStr(sSlashDate)},
        fl \in {JAbsent, JNull, EmptyObj, JObj(JStr(<<>>), JAbsent),
                JObj(JStr(sAAL123), JAbsent)},
        dep \in {JAbsent, JNull, EmptyObj, JObj(JStr(sKJFK), JAbsent)},
        arr \in {JAbsent, JNull} \cup
                {JObj(ic, d) : ic \in {JAbsent, JStr(sKLAX)}, d \in RawDelays},
        st \in RawStatuses}
    \cup {JNull, JStr(sLate)}

\* the entries data lists are built from
eLanded25 == JEntry(JStr(sIsoDate), JObj(JStr(sAAL123), JAbsent), JObj(JStr(sKJFK), JAbsent),
                    JObj(JStr(sKLAX), JInt(25)), JStr(sLanded))
eCancelled45 == JEntry(JStr(sIsoDate), JObj(JStr(sAAL123), JAbsent), JObj(JStr(sKJFK), JAbsent),
                       JObj(JStr(sKLAX), JInt(45)), JStr(sCANCELLED))
eNoFlightIcao == JEntry(JStr(sIsoDate), JAbsent, JObj(JStr(sKJFK), JAbsent),
                        JObj(JStr(sKLAX), JInt(200)), JStr(sActive))
eNullArrival == JEntry(JStr(sIsoDate), JObj(JStr(sAAL123), JAbsent), JObj(JStr(sKJFK), JAbsent),
                       JNull, JStr(sLanded))
SampleEntries == {eLanded25, eCancelled45, eNoFlightIcao, eNullArrival}

\* a cancelled flight whose delay the API gives as text
eCancelledLate == JEntry(JStr(sIsoDate), JObj(JStr(sAAL123), JAbsent), JObj(JStr(sKJFK), JAbsent),
                         JObj(JStr(sKLAX), JStr(sLate)), JStr(sCancelled))

\* decoded documents: a JSON object whose "data" is absent, null or a list; a top-level list
Documents ==
    {JDoc(JAbsent), JDoc(JNull), JList(<<>>), JDoc(JList(<<eCancelledLate>>))}
    \cup {JDoc(JList(items)) : items \in SeqsUpTo(SampleEntries, MaxEntries)}

\* response bodies
Bodies == Documents \cup {InvalidJson}

StatusCodes == {200, 401, 429, 500}

\* outcomes of client.get(url, params=query_params)
Responses ==
    {[kind |-> "connect", code |-> 0, body |-> NoBody],
     [kind |-> "other", code |-> 0, body |-> NoBody]}
    \cup {[kind |-> "status", code |-> c, body |-> NoBody] :
              c \in {c \in StatusCodes : RaisesForStatus(c)}}
    \cup {[kind |-> "status", code |-> c, body |-> b] :
              c \in {c \in StatusCodes : ~RaisesForStatus(c)}, b \in Bodies}

\* what a path can hold
FileStates ==
    {[t |-> "missing"], [t |-> "unreadable"]} \cup {[t |-> "text", doc |-> b] : b \in Bodies}

----------------------------------------------------------------------------
(* Initial values of the parts a specification does not exercise *)

NotRun == [ok |-> FALSE, exc |-> "not run"]

FetchIdle ==
    /\ max_retries = 3
    /\ pc = "off"
    /\ attempt = 0
    /\ clientOpen = 0
    /\ events = <<>>
    /\ result = NoResult
    /\ raisedExc = NoExc
    /\ callsLeft = 0

ClsIdle ==
    /\ clsStatus = <<>>
    /\ clsDelay = JNull
    /\ clsClient = NotRun
    /\ clsParser = NotRun

RecIdle ==
    /\ rawEntry = JNull
    /\ apiOut = NotRun
    /\ fileOut = NotRun

FileIdle ==
    /\ fileState = [t |-> "missing"]
    /\ fpc = "off"
    /\ fileReads = 0
    /\ fileData = NoResult
    /\ fileResult = NoResult
    /\ fileExc = NoExc

SumIdle ==
    /\ sumRecords = <<>>
    /\ sumStats = NotRun

NoEnv == [key |-> JAbsent, retries |-> JAbsent]
NothingDone ==
    [settings |-> FALSE, client |-> FALSE, calls |-> 0, save |-> "none",
     saved |-> FALSE, table |-> FALSE, summary |-> FALSE, stats |-> NotRun, msg |-> ""]

CliIdle ==
    /\ cpc = "off"
    /\ cliDate = <<>>
    /\ cliEnv = NoEnv
    /\ exitCode = -1
    /\ cliOut = NothingDone

----------------------------------------------------------------------------
(* AviationStackClient.get_flights *)

\* mutant: the attempt index is kept on the client and carried into the next call
GetFlightsResume ==
    /\ pc \in {"idle", "returned", "raised"}
    /\ callsLeft > 0
    /\ callsLeft' = callsLeft - 1
    /\ pc' = "loop"
    /\ events' = <<>>
    /\ result' = NoResult
    /\ raisedExc' = NoExc
    /\ UNCHANGED <<max_retries, attempt, clientOpen>>

\* a caller invokes get_flights on the client (again, once the previous call has ended)
GetFlights ==
    /\ pc \in {"idle", "returned", "raised"}
    /\ callsLeft > 0
    /\ callsLeft' = callsLeft - 1
    /\ pc' = "loop"
    /\ attempt' = 0
    /\ events' = <<>>
    /\ result' = NoResult
    /\ raisedExc' = NoExc
    /\ UNCHANGED <<max_retries, clientOpen>>

\* `for attempt in range(max_retries)` yields the next index; `with httpx.Client(...)` opens
LoopEnter ==
    /\ pc = "loop"
    /\ attempt < max_retries
    /\ pc' = "request"
    /\ clientOpen' = clientOpen + 1
    /\ UNCHANGED <<max_retries, attempt, events, result, raisedExc, callsLeft>>

\* range(max_retries) is exhausted: the statement after the loop
LoopExhausted ==
    /\ pc = "loop"
    /\ ~(attempt < max_retries)
    /\ pc' = "raised"
    /\ raisedExc' = Exc("RuntimeError", 0, -1)
    /\ UNCHANGED <<max_retries, attempt, clientOpen, events, result, callsLeft>>

\* client.get(...) ends with a response or an exception, and the rest of the loop body
\* runs up to the return, the raise or the call of time.sleep
Request ==
    /\ pc = "request"
    /\ \E resp \in Responses :
          LET a == AttemptStep(resp, attempt, max_retries)
              sleeps == a.next \in {"sleep429", "sleepErr"}
          IN /\ pc' = a.next
             /\ result' = a.result
             /\ raisedExc' = a.exc
             /\ events' = IF sleeps
                          THEN events \o <<AttemptEvent(attempt, resp),
                                           SleepEvent(attempt, Backoff(attempt))>>
                          ELSE Append(events, AttemptEvent(attempt, resp))
             \* the with block is left on return and on an exception; the 429 branch
             \* sleeps inside it
             /\ clientOpen' = IF a.next = "sleep429" THEN clientOpen ELSE clientOpen - 1
    /\ UNCHANGED <<max_retries, attempt, callsLeft>>

\* time.sleep returns; `continue` (leaving the with block) or the end of the except block
\* leads to the next iteration
Wake ==
    /\ pc \in {"sleep429", "sleepErr"}
    /\ clientOpen' = IF pc = "sleep429" THEN clientOpen - 1 ELSE clientOpen
    /\ attempt' = attempt + 1
    /\ pc' = "loop"
    /\ UNCHANGED <<max_retries, events, result, raisedExc, callsLeft>>

InitFetch ==
    /\ max_retries \in (-1)..MaxRetries
    /\ pc = "idle"
    /\ attempt = 0
    /\ clientOpen = 0
    /\ events = <<>>
    /\ result = NoResult
    /\ raisedExc = NoExc
    /\ callsLeft = 1

----------------------------------------------------------------------------
(* The two classification routines on their own *)

ClassifyClient ==
    /\ clsClient = NotRun
    /\ clsClient' = ClientDetermineDelayCategory(clsStatus, clsDelay)
    /\ UNCHANGED <<clsStatus, clsDelay, clsParser>>

ClassifyParser ==
    /\ clsParser = NotRun
    /\ clsParser' = ParserDetermineDelayCategory(clsStatus, clsDelay)
    /\ UNCHANGED <<clsStatus, clsDelay, clsClient>>

InitClassify ==
    /\ clsStatus \in ClsStatuses
    /\ clsDelay \in ClsDelays
    /\ clsClient = NotRun
    /\ clsParser = NotRun
    /\ FetchIdle /\ RecIdle /\ FileIdle /\ SumIdle /\ CliIdle

NextClassify ==
    \/ ClassifyClient /\ UNCHANGED <<fetchVars, recVars, fileVars, sumVars, cliVars>>
    \/ ClassifyParser /\ UNCHANGED <<fetchVars, recVars, fileVars, sumVars, cliVars>>

SpecClassify == InitClassify /\ [][NextClassify]_vars

----------------------------------------------------------------------------
(* Normalization of one raw entry, by the client and by the file parser *)

\* the document {"data": [rawEntry]}
OneEntryDoc(e) == JDoc(JList(<<e>>))

\* get_flights receives 200 with the body {"data": [rawEntry]} on its only attempt
NormalizeApi ==
    /\ apiOut = NotRun
    /\ apiOut' = TryBlock([kind |-> "status", code |-> 200, body |-> OneEntryDoc(rawEntry)], 0, 1)
    /\ UNCHANGED <<rawEntry, fileOut>>

\* parse_file has loaded {"data": [rawEntry]}
NormalizeFile ==
    /\ fileOut = NotRun
    /\ fileOut' = ParseJsonData(OneEntryDoc(rawEntry))
    /\ UNCHANGED <<rawEntry, apiOut>>

InitRecord ==
    /\ rawEntry \in RawEntries
    /\ apiOut = NotRun
    /\ fileOut = NotRun
    /\ FetchIdle /\ ClsIdle /\ FileIdle /\ SumIdle /\ CliIdle

NextRecord ==
    \/ NormalizeApi /\ UNCHANGED <<fetchVars, clsVars, fileVars, sumVars, cliVars>>
    \/ NormalizeFile /\ UNCHANGED <<fetchVars, clsVars, fileVars, sumVars, cliVars>>

\* both normalizers on one raw entry, or both classification routines on one pair
InitEquiv == InitRecord \/ InitClassify
NextEquiv == NextRecord \/ NextClassify
SpecEquiv == InitEquiv /\ [][NextEquiv]_vars

SpecRecord == InitRecord /\ [][NextRecord]_vars

----------------------------------------------------------------------------
(* Normalization of one entry over the spellings of its flight_date *)

\* the parts a date string is put together from
DateParts == {<<"2","0","2","4">>, <<"1">>, <<"0","1">>, <<"0","2">>, <<"0","3">>, <<"x">>}
DateSeps == {"/", "-"}
DatePads == {<<>>, <<" ">>}

\* flight_date strings: three parts around two separators, with or without surrounding
\* blanks, and a few strings of other shapes
DateStrings ==
    {pre \o a \o <<s1>> \o b \o <<s2>> \o c \o post :
        a \in DateParts, b \in DateParts, c \in DateParts,
        s1 \in DateSeps, s2 \in DateSeps, pre \in DatePads, post \in DatePads}
    \cup {<<" ">>, sLate, <<"l","a","t","e"," ">>,
          <<"2","0","2","4","0","1","0","1">>,
          <<"0","1","/","2","0","2","4">>, <<"0","1","-","2","0","2","4">>,
          <<"2","0","2","4","/","-","/","1">>,
          <<"2","0","2","4","/","1","/","2","/","3">>,
          <<"1","-","2","-","3","-","2","0","2","4">>}

\* an entry complete but for the spelling of its flight_date
DateEntry(d) ==
    JEntry(JStr(d), JObj(JStr(sAAL123), JAbsent), JObj(JStr(sKJFK), JAbsent),
           JObj(JStr(sKLAX), JInt(25)), JStr(sLanded))

InitDate ==
    /\ rawEntry \in {DateEntry(d) : d \in DateStrings}
    /\ apiOut = NotRun
    /\ fileOut = NotRun
    /\ FetchIdle /\ ClsIdle /\ FileIdle /\ SumIdle /\ CliIdle

SpecDate == InitDate /\ [][NextRecord]_vars

----------------------------------------------------------------------------
(* cli._generate_summary_stats *)

\* [r for r in records if <test>], the test given as a set of statuses
RECURSIVE WithStatus(_, _)
WithStatus(records, statuses) ==
    IF records = <<>> THEN <<>>
    ELSE (IF Head(records).flight_status \in statuses THEN <<Head(records)>> ELSE <<>>)
         \o WithStatus(Tail(records), statuses)

\* sum(r.arrival_delay for r in records)
RECURSIVE SumDelay(_)
SumDelay(records) ==
    IF records = <<>> THEN 0 ELSE Head(records).arrival_delay.n + SumDelay(Tail(records))

\* the float a / b of Python's true division, kept as the exact quotient num / den
Quotient(a, b) == [num |-> a, den |-> b]

\* mutant: the average taken over all the records, the cancelled ones included
GenerateSummaryStatsOverAll(records) ==
    [total |-> Len(records),
     on_time |-> Len(WithStatus(records, {ON_TIME})),
     delayed |-> Len(WithStatus(records, {MINOR_DELAY, MAJOR_DELAY, SEVERE_DELAY})),
     cancelled |-> Len(WithStatus(records, {CANCELLED})),
     avg_delay |-> IF records # <<>> THEN Quotient(SumDelay(records), Len(records))
                   ELSE Quotient(0, 1)]

\* cli._generate_summary_stats(records)
GenerateSummaryStats(records) ==
    LET delay_records == WithStatus(records, DelayCategory \ {CANCELLED})
    IN [total |-> Len(records),
        on_time |-> Len(WithStatus(records, {ON_TIME})),
        delayed |-> Len(WithStatus(records, {MINOR_DELAY, MAJOR_DELAY, SEVERE_DELAY})),
        cancelled |-> Len(WithStatus(records, {CANCELLED})),
        avg_delay |-> IF delay_records # <<>>
                      THEN Quotient(SumDelay(delay_records), Len(delay_records))
                      ELSE Quotient(0, 1)]

\* a record of the sample flight with the given category and delay
SummaryRecord(status, delay) ==
    FlightRecord(JInt(delay), JStr(sKLAX), JStr(sIsoDate), JStr(sAAL123), status, JStr(sKJFK))

\* the records the lists given to the summary are made of
SummaryRecords ==
    {SummaryRecord(ON_TIME, 5), SummaryRecord(ON_TIME, -5), SummaryRecord(MINOR_DELAY, 30),
     SummaryRecord(MAJOR_DELAY, 90), SummaryRecord(SEVERE_DELAY, 200),
     SummaryRecord(CANCELLED, 0), SummaryRecord(CANCELLED, 45), SummaryRecord(DIVERTED, 0)}

\* summary_stats = _generate_summary_stats(flight_records)
SummaryStats ==
    /\ sumStats = NotRun
    /\ sumStats' = Ok(GenerateSummaryStats(sumRecords))
    /\ UNCHANGED sumRecords

InitSummary ==
    /\ sumRecords \in SeqsUpTo(SummaryRecords, MaxSummary)
    /\ sumStats = NotRun
    /\ FetchIdle /\ ClsIdle /\ RecIdle /\ FileIdle /\ CliIdle

NextSummary == SummaryStats /\ UNCHANGED <<fetchVars, clsVars, recVars, fileVars, cliVars>>

SpecSummary == InitSummary /\ [][NextSummary]_vars

----------------------------------------------------------------------------
(* FlightDataParser.parse_file *)

\* `if not file_path_obj.exists()`
ParseFileOpen ==
    /\ fpc = "start"
    /\ IF fileState.t = "missing"
       THEN fpc' = "raised" /\ fileExc' = Exc("FileNotFoundError", 0, -1)
       ELSE fpc' = "loading" /\ fileExc' = fileExc
    /\ UNCHANGED <<fileState, fileReads, fileData, fileResult>>

\* mutant: a decode error is swallowed and an empty list returned
ParseFileLoadSwallow ==
    /\ fpc = "loading"
    /\ fileReads' = fileReads + 1
    /\ IF fileState.t = "unreadable"
       THEN fpc' = "raised" /\ fileExc' = Exc("OSError", 0, -1)
            /\ fileData' = fileData /\ fileResult' = fileResult
       ELSE IF fileState.doc.t = "invalid"
       THEN fpc' = "returned" /\ fileExc' = fileExc
            /\ fileData' = fileData /\ fileResult' = JList(<<>>)
       ELSE fpc' = "parsing" /\ fileExc' = fileExc
            /\ fileData' = fileState.doc /\ fileResult' = fileResult
    /\ UNCHANGED fileState

\* open(...) and json.load(f); both except blocks re-raise
ParseFileLoad ==
    /\ fpc = "loading"
    /\ fileReads' = fileReads + 1
    /\ IF fileState.t = "unreadable"
       THEN fpc' = "raised" /\ fileExc' = Exc("OSError", 0, -1) /\ fileData' = fileData
       ELSE IF fileState.doc.t = "invalid"
       THEN fpc' = "raised" /\ fileExc' = Exc("JSONDecodeError", 0, -1) /\ fileData' = fileData
       ELSE fpc' = "parsing" /\ fileExc' = fileExc /\ fileData' = fileState.doc
    /\ UNCHANGED <<fileState, fileResult>>

\* records = self._parse_json_data(data); return records
ParseFileRecords ==
    /\ fpc = "parsing"
    /\ LET r == ParseJsonData(fileData)
       IN IF r.ok
          THEN fpc' = "returned" /\ fileResult' = JList(r.v) /\ fileExc' = fileExc
          ELSE fpc' = "raised" /\ fileResult' = fileResult /\ fileExc' = Exc(r.exc, 0, -1)
    /\ UNCHANGED <<fileState, fileReads, fileData>>

InitFile ==
    /\ fileState \in FileStates
    /\ fpc = "start"
    /\ fileReads = 0
    /\ fileData = NoResult
    /\ fileResult = NoResult
    /\ fileExc = NoExc

----------------------------------------------------------------------------
(* One client called several times *)

\* the calls a caller makes on one client in the reuse scenario
MaxCalls == 2

\* one client, max_retries 0, 1 or 2, on which get_flights is called MaxCalls times in a row
InitReuse ==
    /\ max_retries \in {0, 1, 2}
    /\ pc = "idle"
    /\ attempt = 0
    /\ clientOpen = 0
    /\ events = <<>>
    /\ result = NoResult
    /\ raisedExc = NoExc
    /\ callsLeft = MaxCalls
    /\ FileIdle /\ ClsIdle /\ RecIdle /\ SumIdle /\ CliIdle

NextReuse ==
    \/ GetFlights /\ UNCHANGED <<clsVars, recVars, fileVars, sumVars, cliVars>>
    \/ LoopEnter /\ UNCHANGED <<clsVars, recVars, fileVars, sumVars, cliVars>>
    \/ LoopExhausted /\ UNCHANGED <<clsVars, recVars, fileVars, sumVars, cliVars>>
    \/ Request /\ UNCHANGED <<clsVars, recVars, fileVars, sumVars, cliVars>>
    \/ Wake /\ UNCHANGED <<clsVars, recVars, fileVars, sumVars, cliVars>>

SpecReuse == InitReuse /\ [][NextReuse]_vars

----------------------------------------------------------------------------
(* One invocation: a client whose get_flights is called, or a parser whose
   parse_file is called on a path *)

Init ==
    /\ \/ InitFetch /\ FileIdle
       \/ InitFile /\ FetchIdle
    /\ ClsIdle /\ RecIdle /\ SumIdle /\ CliIdle

Next ==
    \/ GetFlights /\ UNCHANGED <<clsVars, recVars, fileVars, sumVars, cliVars>>
    \/ LoopEnter /\ UNCHANGED <<clsVars, recVars, fileVars, sumVars, cliVars>>
    \/ LoopExhausted /\ UNCHANGED <<clsVars, recVars, fileVars, sumVars, cliVars>>
    \/ Request /\ UNCHANGED <<clsVars, recVars, fileVars, sumVars, cliVars>>
    \/ Wake /\ UNCHANGED <<clsVars, recVars, fileVars, sumVars, cliVars>>
    \/ ParseFileOpen /\ UNCHANGED <<fetchVars, clsVars, recVars, sumVars, cliVars>>
    \/ ParseFileLoad /\ UNCHANGED <<fetchVars, clsVars, recVars, sumVars, cliVars>>
    \/ ParseFileRecords /\ UNCHANGED <<fetchVars, clsVars, recVars, sumVars, cliVars>>

Spec == Init /\ [][Next]_vars

----------------------------------------------------------------------------
(* cli.fetch: one invocation of the command *)

\* the value of a decimal digit, and of a string of decimal digits
DigitChars == <<"0", "1", "2", "3", "4", "5", "6", "7", "8", "9">>
IsDigit(c) == \E i \in 1..10 : DigitChars[i] = c
DigitValue(c) == (CHOOSE i \in 1..10 : DigitChars[i] = c) - 1
RECURSIVE NumberOf(_)
NumberOf(s) == IF s = <<>> THEN 0 ELSE 10 * NumberOf(SubSeq(s, 1, Len(s) - 1)) + DigitValue(s[Len(s)])

\* the directives of strptime: %Y is \d\d\d\d, %m is 1[0-2]|0[1-9]|[1-9],
\* %d is 3[01]|[12]\d|0[1-9]|[1-9]| [1-9]
MatchesY(t) == Len(t) = 4 /\ \A i \in 1..4 : IsDigit(t[i])
MatchesM(t) ==
    \/ Len(t) = 2 /\ t[1] = "1" /\ t[2] \in {"0", "1", "2"}
    \/ Len(t) = 2 /\ t[1] = "0" /\ IsDigit(t[2]) /\ t[2] # "0"
    \/ Len(t) = 1 /\ IsDigit(t[1]) /\ t[1] # "0"
MatchesD(t) ==
    \/ Len(t) = 2 /\ t[1] = "3" /\ t[2] \in {"0", "1"}
    \/ Len(t) = 2 /\ t[1] \in {"1", "2"} /\ IsDigit(t[2])
    \/ Len(t) = 2 /\ t[1] \in {"0", " "} /\ IsDigit(t[2]) /\ t[2] # "0"
    \/ Len(t) = 1 /\ IsDigit(t[1]) /\ t[1] # "0"

IsLeap(y) == y % 4 = 0 /\ (y % 100 # 0 \/ y % 400 = 0)
DaysInMonth(y, m) ==
    IF m = 2 THEN (IF IsLeap(y) THEN 29 ELSE 28)
    ELSE IF m \in {4, 6, 9, 11} THEN 30
    ELSE 31

\* datetime.datetime.strptime(flight_date, "%Y-%m-%d") returns (TRUE) or raises
\* ValueError (FALSE): the whole string must match, and the date must exist
Strptime(flight_date) ==
    LET p == Split(flight_date, "-")
    IN /\ Len(p) = 3
       /\ MatchesY(p[1]) /\ MatchesM(p[2]) /\ MatchesD(p[3])
       /\ NumberOf(p[1]) >= 1
       /\ NumberOf(LStrip(p[3])) <= DaysInMonth(NumberOf(p[1]), NumberOf(p[2]))

sTestKey == <<"t","e","s","t","-","k","e","y","-","e","2","e">>
sSomeKey == <<"k","1">>
DefaultMaxRetries == 3

\* Settings(): the fields get_flights uses, read from the environment (the variables and
\* the .env file taken together, as strings), each with its default
Settings(env) ==
    IF env.retries.t = "str" THEN Raise("ValidationError")        \* int("late")
    ELSE Ok([access_key |-> GetOr(env.key, JStr(sTestKey)),
             max_retries |-> IF env.retries.t = "absent" THEN DefaultMaxRetries
                             ELSE env.retries.n])

\* `record.arrival_delay > 0` can be evaluated for every record of the table
Comparable(records) == \A k \in 1..Len(records) : IsInt(records[k].arrival_delay)

\* --flight-date values
sDate15 == <<"2","0","2","4","-","1","-","5">>
sLeapDay == <<"2","0","2","4","-","0","2","-","2","9">>
sMonth13 == <<"2","0","2","4","-","1","3","-","0","1">>
sFeb29 == <<"2","0","2","3","-","0","2","-","2","9">>
CliDates == {sIsoDate, sDate15, sLeapDay, sMonth13, sFeb29, sSlashDate, sLate, <<>>}

\* environments: the access key set or not; MAX_RETRIES not set, an integer, or not one
CliEnvs ==
    {[key |-> k, retries |-> r] :
        k \in {JAbsent, JStr(sSomeKey)},
        r \in {JAbsent, JInt(0), JInt(1), JInt(2), JStr(sLate)}}

Exit(code, msg) ==
    /\ cpc' = "exited"
    /\ exitCode' = code
    /\ cliOut' = [cliOut EXCEPT !.msg = msg]

\* the date validation
CliValidateDate ==
    /\ cpc = "start"
    /\ IF Strptime(cliDate)
       THEN cpc' = "settings" /\ UNCHANGED <<exitCode, cliOut>>
       ELSE Exit(1, "Invalid date format")
    /\ UNCHANGED <<cliDate, cliEnv, fetchVars>>

\* settings = Settings(); api_client = AviationStackClient(settings, logger)
CliSetup ==
    /\ cpc = "settings"
    /\ LET s == Settings(cliEnv)
       IN IF s.ok
          THEN /\ cpc' = "fetch"
               /\ cliOut' = [cliOut EXCEPT !.settings = TRUE, !.client = TRUE]
               /\ max_retries' = s.v.max_retries
               /\ pc' = "idle"
               /\ callsLeft' = 1
               /\ UNCHANGED exitCode
          ELSE /\ Exit(1, "Configuration error")
               /\ UNCHANGED <<max_retries, pc, callsLeft>>
    /\ UNCHANGED <<cliDate, cliEnv, attempt, clientOpen, events, result, raisedExc>>

\* flight_records = api_client.get_flights(query_params)
CliCall ==
    /\ cpc = "fetch"
    /\ GetFlights
    /\ cpc' = "fetching"
    /\ cliOut' = [cliOut EXCEPT !.calls = @ + 1]
    /\ UNCHANGED <<cliDate, cliEnv, exitCode>>

\* get_flights has ended: the except blocks of the command, or on to the rest
CliAfterFetch ==
    /\ cpc = "fetching"
    /\ pc \in {"returned", "raised"}
    /\ IF pc = "raised"
       THEN Exit(1, CASE raisedExc.type = "HTTPStatusError" -> "API error"
                      [] raisedExc.type = "ConnectError" -> "Connection failed"
                      [] OTHER -> "Unexpected error")
       ELSE cpc' = "save" /\ UNCHANGED <<exitCode, cliOut>>
    /\ UNCHANGED <<cliDate, cliEnv, fetchVars>>

\* `if save_to_file:` the option is not given, or the file is written, or writing fails
\* and the except block prints a warning
CliSave ==
    /\ cpc = "save"
    /\ \E how \in {"none", "written", "failed"} :
          cliOut' = [cliOut EXCEPT !.save = how, !.saved = (how = "written")]
    /\ cpc' = "display"
    /\ UNCHANGED <<cliDate, cliEnv, exitCode, fetchVars>>

\* the display of the results: the message for no records, or the table and, for more
\* than one record, the summary; an exception of the table loop is caught by nothing
CliDisplay ==
    /\ cpc = "display"
    /\ LET flight_records == result.items
       IN IF flight_records = <<>> THEN Exit(0, "No flight data found")
          ELSE IF ~Comparable(flight_records) THEN Exit(1, "TypeError")
          ELSE /\ cpc' = "exited"
               /\ exitCode' = 0
               /\ cliOut' = [cliOut EXCEPT
                                !.table = TRUE,
                                !.summary = Len(flight_records) > 1,
                                !.stats = IF Len(flight_records) > 1
                                          THEN GenerateSummaryStats(flight_records)
                                          ELSE NotRun]
    /\ UNCHANGED <<cliDate, cliEnv, fetchVars>>

InitCli ==
    /\ cpc = "start"
    /\ cliDate \in CliDates
    /\ cliEnv \in CliEnvs
    /\ exitCode = -1
    /\ cliOut = NothingDone
    /\ FetchIdle /\ ClsIdle /\ RecIdle /\ FileIdle /\ SumIdle

NextCli ==
    \/ CliValidateDate /\ UNCHANGED <<clsVars, recVars, fileVars, sumVars>>
    \/ CliSetup /\ UNCHANGED <<clsVars, recVars, fileVars, sumVars>>
    \/ CliCall /\ UNCHANGED <<clsVars, recVars, fileVars, sumVars>>
    \/ LoopEnter /\ UNCHANGED <<clsVars, recVars, fileVars, sumVars, cliVars>>
    \/ LoopExhausted /\ UNCHANGED <<clsVars, recVars, fileVars, sumVars, cliVars>>
    \/ Request /\ UNCHANGED <<clsVars, recVars, fileVars, sumVars, cliVars>>
    \/ Wake /\ UNCHANGED <<clsVars, recVars, fileVars, sumVars, cliVars>>
    \/ CliAfterFetch /\ UNCHANGED <<clsVars, recVars, fileVars, sumVars>>
    \/ CliSave /\ UNCHANGED <<clsVars, recVars, fileVars, sumVars>>
    \/ CliDisplay /\ UNCHANGED <<clsVars, recVars, fileVars, sumVars>>

SpecCli == InitCli /\ [][NextCli]_vars

----------------------------------------------------------------------------
(* Claims *)

\* the category the thresholds of the specification give an integer delay
ThresholdCategory(d) ==
    IF d <= 15 THEN ON_TIME
    ELSE IF d <= 60 THEN MINOR_DELAY
    ELSE IF d <= 180 THEN MAJOR_DELAY
    ELSE SEVERE_DELAY

\* C3: for every status other than 'cancelled'/'diverted' and every integer delay d
\* (negative included) both _determine_delay_category routines return ON_TIME when
\* d <= 15, MINOR_DELAY when 15 < d <= 60, MAJOR_DELAY when 60 < d <= 180 and
\* SEVERE_DELAY when d > 180; 15, 16, 60, 61, 180, 181 fall as the specification lists.
C3_Thresholds ==
    (clsStatus \notin {sCancelled, sDiverted} /\ IsInt(clsDelay)) =>
        LET d == clsDelay.n
            want == CASE d = 15 -> ON_TIME
                      [] d = 16 -> MINOR_DELAY
                      [] d = 60 -> MINOR_DELAY
                      [] d = 61 -> MAJOR_DELAY
                      [] d = 180 -> MAJOR_DELAY
                      [] d = 181 -> SEVERE_DELAY
                      [] d < 0 -> ON_TIME
                      [] OTHER -> ThresholdCategory(d)
        IN /\ clsClient # NotRun => clsClient = Ok(want)
           /\ clsParser # NotRun => clsParser = Ok(want)

\* C3 witness: both routines have classified a delay of 181 minutes of a landed flight
C3_Witness ==
    /\ clsStatus = sLanded
    /\ clsDelay = JInt(181)
    /\ clsClient = Ok(SEVERE_DELAY)
    /\ clsParser = Ok(SEVERE_DELAY)

\* s spells the lower-case word w in some letter case
SpellsIgnoringCase(s, w) ==
    /\ Len(s) = Len(w)
    /\ \A i \in 1..Len(w) :
          \/ s[i] = w[i]
          \/ \E k \in 1..Len(LowerChars) : LowerChars[k] = w[i] /\ UpperChars[k] = s[i]

\* the records of a returned list (none when the call raised or has not run)
RecordsOf(out) == IF out.ok THEN {out.v[i] : i \in 1..Len(out.v)} ELSE {}

\* C4: an entry whose flight_status spells 'cancelled' or 'diverted' in any letter case
\* yields, from get_flights and from parse_file and whatever its arrival delay, only a
\* record with flight_status CANCELLED or DIVERTED respectively, never a delay-based one.
C4_SpecialStatusWins ==
    (IsObj(rawEntry) /\ IsStr(rawEntry.flight_status)) =>
        \A r \in RecordsOf(apiOut) \cup RecordsOf(fileOut) :
            /\ SpellsIgnoringCase(rawEntry.flight_status.s, sCancelled)
                  => r.flight_status = CANCELLED
            /\ SpellsIgnoringCase(rawEntry.flight_status.s, sDiverted)
                  => r.flight_status = DIVERTED

\* C4 witness: 'CANCELLED' in capitals with a delay of 181 minutes gave a CANCELLED
\* record on both paths
C4_Witness ==
    /\ IsObj(rawEntry)
    /\ rawEntry.flight_status = JStr(sCANCELLED)
    /\ IsObj(rawEntry.arrival) /\ rawEntry.arrival.delay = JInt(181)
    /\ apiOut.ok /\ Len(apiOut.v) = 1 /\ apiOut.v[1].flight_status = CANCELLED
    /\ fileOut.ok /\ Len(fileOut.v) = 1 /\ fileOut.v[1].flight_status = CANCELLED

\* C5 (as claimed): every record get_flights returns with flight_status CANCELLED or
\* DIVERTED has arrival_delay 0, also when the entry carries a non-zero arrival.delay.
C5_ApiSpecialStatusZeroDelay ==
    pc = "returned" =>
        \A i \in 1..Len(result.items) :
            result.items[i].flight_status \in {CANCELLED, DIVERTED}
                => result.items[i].arrival_delay = JInt(0)

\* C6: every record parse_file returns with flight_status CANCELLED or DIVERTED has
\* arrival_delay 0, whatever arrival.delay the entry carried.
C6_FileSpecialStatusZeroDelay ==
    \A r \in RecordsOf(fileOut) :
        r.flight_status \in {CANCELLED, DIVERTED} => r.arrival_delay = JInt(0)

\* C6 witness: a diverted entry with a delay of 45 minutes came out of the file path
\* as DIVERTED with arrival_delay 0
C6_Witness ==
    /\ IsObj(rawEntry)
    /\ rawEntry.flight_status = JStr(sDivertedMixed)
    /\ IsObj(rawEntry.arrival) /\ rawEntry.arrival.delay = JInt(45)
    /\ fileOut.ok /\ Len(fileOut.v) = 1
    /\ fileOut.v[1].flight_status = DIVERTED
    /\ fileOut.v[1].arrival_delay = JInt(0)

----------------------------------------------------------------------------
(* Claims about the retry loop of get_flights *)

IsAttempt(ev) == ev.e = "attempt"
IsSleep(ev) == ev.e = "sleep"
Attempts == SelectSeq(events, IsAttempt)
Sleeps == SelectSeq(events, IsSleep)
NumAttempts == Len(Attempts)
Active == pc \in {"loop", "request", "sleep429", "sleepErr"}
Ended == pc \in {"returned", "raised"}

\* the attempt got a 2xx response whose body decodes to an object with a usable "data"
Succeeded(ev) ==
    /\ IsAttempt(ev) /\ ev.kind = "status" /\ ev.code \in 200..299
    /\ ev.body.t = "obj" /\ ev.body.data.t \in {"absent", "list"}

\* the record the specification's sample entry normalizes to
recLanded25 ==
    [arrival_delay |-> JInt(25), destination_icao |-> JStr(sKLAX),
     flight_date |-> JStr(sIsoDate), flight_icao |-> JStr(sAAL123),
     flight_status |-> MINOR_DELAY, origin_icao |-> JStr(sKJFK)]

\* what is left of a call: 0 once it has ended, and less after every step of it
Variant ==
    IF ~Active THEN 0
    ELSE 3 * (max_retries - attempt)
         - (CASE pc = "loop" -> 0 [] pc = "request" -> 1 [] OTHER -> 2)

\* C1: with max_retries = N >= 1, a call makes at most N attempts and terminates by
\* returning a list or raising (a call in progress always has a next step, and every
\* step of it lowers a non-negative measure); when every attempt fails with a
\* connection error, exactly N attempts are made and ConnectError is raised.
C1_BoundedAttempts ==
    /\ [](max_retries >= 1 =>
            /\ NumAttempts <= max_retries
            /\ Active => ENABLED (LoopEnter \/ LoopExhausted \/ Request \/ Wake)
            /\ pc = "returned" => result.t = "list" /\ raisedExc = NoExc
            /\ pc = "raised" => result = NoResult /\ raisedExc # NoExc
            /\ (Ended /\ \A k \in 1..NumAttempts : Attempts[k].kind = "connect") =>
                  /\ NumAttempts = max_retries
                  /\ pc = "raised"
                  /\ raisedExc.type = "ConnectError")
    /\ [][(max_retries >= 1 /\ Active) => (Variant' < Variant /\ Variant' >= 0)]_vars

\* C1 witness: three connection errors with max_retries = 3 ended in ConnectError
C1_Witness ==
    /\ max_retries = 3
    /\ pc = "raised"
    /\ NumAttempts = 3
    /\ \A k \in 1..3 : Attempts[k].kind = "connect"
    /\ raisedExc.type = "ConnectError"

\* C2: whatever the failure kinds, the sleep after the failed attempt with index i is
\* 2^i seconds, attempts and sleeps strictly alternate, and no sleep follows a
\* successful attempt or the final attempt; two connection failures then a success
\* with max_retries = 3 give 3 attempts, sleeps of 1s then 2s, and the parsed result.
C2_BackoffSchedule ==
    /\ \A k \in 1..Len(events) :
          /\ IsAttempt(events[k]) <=> (k % 2 = 1)
          /\ IsAttempt(events[k]) => events[k].i = (k - 1) \div 2
          /\ IsSleep(events[k]) =>
                /\ events[k].i = events[k - 1].i
                /\ events[k].secs = 2 ^ events[k].i
                /\ ~Succeeded(events[k - 1])
                /\ events[k].i < max_retries - 1
    /\ (Active /\ pc # "request" /\ events # <<>>) => IsSleep(events[Len(events)])
    /\ Ended => (events = <<>> \/ IsAttempt(events[Len(events)]))
    /\ pc = "returned" => Succeeded(events[Len(events)])
    /\ (/\ max_retries = 3 /\ Len(events) >= 5
        /\ events[1].kind = "connect" /\ events[3].kind = "connect"
        /\ Succeeded(events[5])) =>
            /\ pc = "returned"
            /\ NumAttempts = 3
            /\ Len(Sleeps) = 2 /\ Sleeps[1].secs = 1 /\ Sleeps[2].secs = 2
            /\ events[5].body = OneEntryDoc(eLanded25) => result = JList(<<recLanded25>>)

\* C2 witness: two connection failures, then 200 with the sample entry, max_retries = 3
C2_Witness ==
    /\ max_retries = 3
    /\ pc = "returned"
    /\ Len(events) = 5
    /\ events[1].kind = "connect" /\ events[2].secs = 1
    /\ events[3].kind = "connect" /\ events[4].secs = 2
    /\ events[5].code = 200 /\ events[5].body = OneEntryDoc(eLanded25)
    /\ result = JList(<<recLanded25>>)

\* every attempt of the call got the status s
AllAttemptsStatus(s) ==
    /\ NumAttempts >= 1
    /\ \A k \in 1..NumAttempts : Attempts[k].kind = "status" /\ Attempts[k].code = s

\* C7: when every attempt receives the same non-2xx status s other than 429, exactly
\* max_retries attempts are made and HTTPStatusError carrying s is raised; the call
\* never returns a list.
C7_PersistentStatusError ==
    \A s \in StatusCodes :
        (s \notin 200..299 /\ s # 429 /\ AllAttemptsStatus(s)) =>
            /\ pc # "returned" /\ result = NoResult
            /\ Ended =>
                  /\ pc = "raised"
                  /\ NumAttempts = max_retries
                  /\ raisedExc.type = "HTTPStatusError" /\ raisedExc.code = s
            /\ pc = "raised" <=> NumAttempts = max_retries

\* C7 witness: three 401 responses with max_retries = 3 ended in HTTPStatusError(401)
C7_Witness ==
    /\ max_retries = 3
    /\ AllAttemptsStatus(401)
    /\ NumAttempts = 3
    /\ pc = "raised"
    /\ raisedExc.type = "HTTPStatusError" /\ raisedExc.code = 401

\* C8: a 429 at an attempt with index i < max_retries - 1 raises nothing, is followed
\* by exactly one sleep of 2^i seconds (taken in the rate-limit branch, not in an
\* except block) and then by the next attempt; 429 followed by a 2xx response returns
\* the parsed list after exactly 2 attempts.
C8_RateLimitRetry ==
    /\ \A k \in 1..Len(events) :
          (/\ IsAttempt(events[k]) /\ events[k].kind = "status" /\ events[k].code = 429
           /\ events[k].i < max_retries - 1) =>
              /\ raisedExc.at # events[k].i
              /\ Len(events) > k
              /\ IsSleep(events[k + 1]) /\ events[k + 1].secs = 2 ^ events[k].i
              /\ Len(events) > k + 1 => IsAttempt(events[k + 2]) /\ events[k + 2].i = events[k].i + 1
              /\ Len(events) = k + 1 =>
                    \/ pc = "sleep429"
                    \/ pc = "loop" /\ attempt = events[k].i + 1 /\ ENABLED LoopEnter
                    \/ pc = "request" /\ attempt = events[k].i + 1
    /\ (/\ Len(events) >= 3 /\ events[1].kind = "status" /\ events[1].code = 429
        /\ Succeeded(events[3])) =>
            /\ pc = "returned" /\ NumAttempts = 2 /\ result # NoResult
            /\ events[3].body = OneEntryDoc(eLanded25) => result = JList(<<recLanded25>>)

\* C8 witness: 429, a sleep of 1s, then 200 with the sample entry
C8_Witness ==
    /\ pc = "returned"
    /\ Len(events) = 3
    /\ events[1].code = 429 /\ events[2].secs = 1
    /\ events[3].code = 200 /\ events[3].body = OneEntryDoc(eLanded25)
    /\ result = JList(<<recLanded25>>)

\* C9: a 429 on the final attempt (index max_retries - 1) is followed by no sleep and
\* raises HTTPStatusError carrying 429 to the caller, as any other non-2xx status does.
C9_FinalRateLimit ==
    \A k \in 1..Len(events) :
        (/\ IsAttempt(events[k]) /\ events[k].kind = "status" /\ events[k].code = 429
         /\ events[k].i = max_retries - 1) =>
            /\ k = Len(events)
            /\ pc = "raised"
            /\ raisedExc = Exc("HTTPStatusError", 429, events[k].i)

\* C9 witness: with max_retries = 2, a connection error and then a 429
C9_Witness ==
    /\ max_retries = 2
    /\ Len(events) = 3
    /\ events[1].kind = "connect"
    /\ events[3].code = 429
    /\ pc = "raised"
    /\ raisedExc.type = "HTTPStatusError" /\ raisedExc.code = 429

----------------------------------------------------------------------------
(* Claims about a batch of entries *)

\* the positions of a data list whose entry the client / the file parser normalizes
ApiGood(items) == {i \in 1..Len(items) : ParseFlightRecord(items[i]).ok}
FileGood(items) == {i \in 1..Len(items) : ParseFlightData(items[i]).ok}

\* the data list of a decoded document
ItemsOf(doc) == IF doc.data.t = "list" THEN doc.data.items ELSE <<>>

\* C10: in get_flights (on a 2xx response) and in parse_file, an entry of the data list
\* that fails normalization is skipped and never aborts the batch: the call returns,
\* and the list holds a record for every entry that normalizes, and only for those.
C10_BadEntrySkipped ==
    /\ (events # <<>> /\ Succeeded(events[Len(events)])) =>
          LET items == ItemsOf(events[Len(events)].body)
          IN /\ pc = "returned" /\ raisedExc = NoExc
             /\ \A i \in ApiGood(items) :
                   \E j \in 1..Len(result.items) :
                       result.items[j] = ParseFlightRecord(items[i]).v
             /\ Len(result.items) = Cardinality(ApiGood(items))
    /\ (fpc \in {"returned", "raised"} /\ fileData.t = "obj") =>
          LET items == ItemsOf(fileData)
          IN /\ fpc = "returned" /\ fileExc = NoExc
             /\ \A i \in FileGood(items) :
                   \E j \in 1..Len(fileResult.items) :
                       fileResult.items[j] = ParseFlightData(items[i]).v
             /\ Len(fileResult.items) = Cardinality(FileGood(items))

\* C10 witness: get_flights got 200 with an entry whose arrival is null followed by the
\* sample entry, and returned the one record of the sample entry
C10_Witness ==
    /\ pc = "returned"
    /\ events[Len(events)].body = JDoc(JList(<<eNullArrival, eLanded25>>))
    /\ ~ParseFlightRecord(eNullArrival).ok
    /\ result = JList(<<recLanded25>>)

\* the j-th smallest member of a set of positions
NthOf(G, j) == CHOOSE i \in G : Cardinality({k \in G : k < i}) = j - 1

\* the record the file path makes of the cancelled sample entry
recCancelled0 ==
    [arrival_delay |-> JInt(0), destination_icao |-> JStr(sKLAX),
     flight_date |-> JStr(sIsoDate), flight_icao |-> JStr(sAAL123),
     flight_status |-> CANCELLED, origin_icao |-> JStr(sKJFK)]

\* C11: the list returned by parse_file, and by get_flights on a 2xx response, is
\* exactly the sequence of the normalized records of the entries that normalize, in
\* the relative order of the data list, nothing added or duplicated: its j-th record
\* is the record of the j-th entry that normalizes, and it is never longer than the
\* data list.
C11_OrderPreserved ==
    /\ (events # <<>> /\ Succeeded(events[Len(events)])) =>
          LET items == ItemsOf(events[Len(events)].body)
              G == ApiGood(items)
          IN /\ pc = "returned"
             /\ Len(result.items) = Cardinality(G)
             /\ Len(result.items) <= Len(items)
             /\ \A j \in 1..Len(result.items) :
                   result.items[j] = ParseFlightRecord(items[NthOf(G, j)]).v
    /\ fpc = "returned" =>
          LET items == ItemsOf(fileData)
              G == FileGood(items)
          IN /\ Len(fileResult.items) = Cardinality(G)
             /\ Len(fileResult.items) <= Len(items)
             /\ \A j \in 1..Len(fileResult.items) :
                   fileResult.items[j] = ParseFlightData(items[NthOf(G, j)]).v

\* C11 witness: parse_file on a file listing the cancelled entry and then the sample
\* entry returned their two records in that order
C11_Witness ==
    /\ fpc = "returned"
    /\ fileData = JDoc(JList(<<eCancelled45, eLanded25>>))
    /\ fileResult = JList(<<recCancelled0, recLanded25>>)

----------------------------------------------------------------------------
(* Claims about the fields of one entry *)

\* a key of an entry is missing or holds a value of one of the given JSON types
AbsentOr(v, types) == v.t = "absent" \/ v.t \in types

\* a flight/departure/arrival slot is missing or an object with a str icao (if any) and
\* an integer or null delay (if any)
WellTypedPart(v) ==
    \/ v.t = "absent"
    \/ IsObj(v) /\ AbsentOr(v.icao, {"str"}) /\ AbsentOr(v.delay, {"null", "int"})

\* an entry whose keys, where present, hold values of the documented types
WellTyped(e) ==
    /\ IsObj(e)
    /\ AbsentOr(e.flight_date, {"str"})
    /\ AbsentOr(e.flight_status, {"str"})
    /\ WellTypedPart(e.flight) /\ WellTypedPart(e.departure) /\ WellTypedPart(e.arrival)

\* the value is a present, non-empty string
NonEmptyStr(v) == v.t = "str" /\ v.s # <<>>

\* the identifier of a flight/departure/arrival slot is present and non-empty
HasIcao(v) == IsObj(v) /\ NonEmptyStr(v.icao)

\* the four fields the file path requires
HasRequired(e) ==
    /\ NonEmptyStr(e.flight_date)
    /\ HasIcao(e.flight) /\ HasIcao(e.departure) /\ HasIcao(e.arrival)

\* C12: in parse_file a well-typed entry yields a record if and only if flight_date,
\* flight.icao, departure.icao and arrival.icao are all present and non-empty; an
\* entry lacking any one of the four fails validation (ValueError) and yields no record.
C12_StrictRequiredFields ==
    (WellTyped(rawEntry) /\ fileOut # NotRun) =>
        /\ fileOut.ok
        /\ Len(fileOut.v) = (IF HasRequired(rawEntry) THEN 1 ELSE 0)
        /\ ~HasRequired(rawEntry) => ParseFlightData(rawEntry) = Raise("ValueError")

\* C12 witness: an entry whose departure object has no icao, the other three fields
\* given, went through the file path and gave no record
C12_Witness ==
    /\ WellTyped(rawEntry)
    /\ NonEmptyStr(rawEntry.flight_date)
    /\ HasIcao(rawEntry.flight) /\ HasIcao(rawEntry.arrival)
    /\ rawEntry.departure = EmptyObj
    /\ fileOut = Ok(<<>>)

\* the identifier of a flight/departure/arrival slot, the empty string when the slot
\* or its icao is missing
IcaoOrEmpty(v) == IF v.t = "absent" \/ v.icao.t = "absent" THEN JStr(<<>>) ELSE v.icao

\* C13: in get_flights a (well-typed) entry that lacks flight_date, the flight object
\* or flight.icao, the departure object or departure.icao, or the arrival object or
\* arrival.icao is not skipped: a record is produced, with the empty string in each
\* missing field and the entry's value in each field given.
C13_LenientDefaults ==
    (WellTyped(rawEntry) /\ apiOut # NotRun) =>
        /\ apiOut.ok
        /\ Len(apiOut.v) = 1
        /\ apiOut.v[1].flight_date =
              (IF rawEntry.flight_date.t = "absent" THEN JStr(<<>>) ELSE rawEntry.flight_date)
        /\ apiOut.v[1].flight_icao = IcaoOrEmpty(rawEntry.flight)
        /\ apiOut.v[1].origin_icao = IcaoOrEmpty(rawEntry.departure)
        /\ apiOut.v[1].destination_icao = IcaoOrEmpty(rawEntry.arrival)

\* C13 witness: an entry with only flight_status 'landed' and a departure object without
\* icao came out of get_flights as a record with four empty strings
C13_Witness ==
    /\ rawEntry = JEntry(JAbsent, JAbsent, EmptyObj, JAbsent, JStr(sLanded))
    /\ apiOut = Ok(<<FlightRecord(JInt(0), JStr(<<>>), JStr(<<>>), JStr(<<>>),
                                  ON_TIME, JStr(<<>>))>>)

----------------------------------------------------------------------------
(* Claims about parse_file as a whole *)

FileCalled == fpc \notin {"off", "start"}
FileEnded == fpc \in {"returned", "raised"}

\* C14: parse_file on a path that does not exist raises FileNotFoundError, and on a
\* file whose content is not valid JSON (the empty file included) raises a JSON decode
\* error; either is raised at once: the file is read at most once (not at all when it
\* is missing), nothing is retried or slept on, and no list is returned.
C14_FileErrorsImmediate ==
    /\ fileReads <= 1
    /\ (FileCalled /\ fileState.t = "missing") =>
          /\ fpc = "raised"
          /\ fileExc.type = "FileNotFoundError"
          /\ fileReads = 0
    /\ (FileEnded /\ fileState.t = "text" /\ fileState.doc = InvalidJson) =>
          /\ fpc = "raised"
          /\ fileExc.type = "JSONDecodeError"
          /\ fileReads = 1
    /\ fpc = "raised" =>
          /\ fileResult = NoResult
          /\ ~ENABLED (ParseFileOpen \/ ParseFileLoad \/ ParseFileRecords)

\* C14 witness: parse_file on a file that is not JSON raised the decode error after
\* one read
C14_Witness ==
    /\ fileState = [t |-> "text", doc |-> InvalidJson]
    /\ fpc = "raised"
    /\ fileExc.type = "JSONDecodeError"
    /\ fileReads = 1
    /\ fileResult = NoResult

\* a JSON object whose "data" key is absent or holds the empty list
NoDataDocs == {JDoc(JAbsent), JDoc(JList(<<>>))}

\* C15: for a well-formed JSON object whose data key is absent or holds an empty list,
\* parse_file returns the empty list without error, and get_flights, on a 2xx response
\* with such a body, returns the empty list on that attempt: no error, no sleep and no
\* further attempt follows it.
C15_EmptyData ==
    /\ (FileEnded /\ fileState.t = "text" /\ fileState.doc \in NoDataDocs) =>
          /\ fpc = "returned"
          /\ fileResult = JList(<<>>)
          /\ fileExc = NoExc
    /\ \A k \in 1..Len(events) :
          (/\ IsAttempt(events[k]) /\ events[k].kind = "status"
           /\ events[k].code \in 200..299 /\ events[k].body \in NoDataDocs) =>
              /\ k = Len(events)
              /\ pc = "returned"
              /\ result = JList(<<>>)
              /\ raisedExc = NoExc

\* C15 witness: parse_file on a file holding an object without a data key returned the
\* empty list
C15_Witness ==
    /\ fileState = [t |-> "text", doc |-> JDoc(JAbsent)]
    /\ fpc = "returned"
    /\ fileReads = 1
    /\ fileResult = JList(<<>>)
    /\ fileExc = NoExc

----------------------------------------------------------------------------
(* Claims about flight_date *)

Digits == {"0", "1", "2", "3", "4", "5", "6", "7", "8", "9"}
AllDigits(s) == \A i \in 1..Len(s) : s[i] \in Digits

\* a year (YYYY), and a month or day of one or two digits (M, MM, D, DD)
IsYear(s) == Len(s) = 4 /\ AllDigits(s)
IsMonthOrDay(s) == Len(s) \in {1, 2} /\ AllDigits(s)

\* a month or day padded with zeros to two digits
Pad2(s) == IF Len(s) = 1 THEN <<"0">> \o s ELSE s

\* year, month and day joined as YYYY-MM-DD
Dashed(y, m, d) == y \o <<"-">> \o m \o <<"-">> \o d

\* the string is YYYY-MM-DD
IsCanonicalDate(s) ==
    /\ Len(s) = 10 /\ s[5] = "-" /\ s[8] = "-"
    /\ IsYear(SubSeq(s, 1, 4)) /\ AllDigits(SubSeq(s, 6, 7)) /\ AllDigits(SubSeq(s, 9, 10))

\* the string is three parts separated by c, the year first / the year last
IsYMD(s, c) ==
    LET p == Split(s, c)
    IN Len(p) = 3 /\ IsYear(p[1]) /\ IsMonthOrDay(p[2]) /\ IsMonthOrDay(p[3])
IsMDY(s, c) ==
    LET p == Split(s, c)
    IN Len(p) = 3 /\ IsMonthOrDay(p[1]) /\ IsMonthOrDay(p[2]) /\ IsYear(p[3])

\* the flight_date of the entry, and of the record the file path / the client made of it
DateIn == rawEntry.flight_date.s
FileDateOut == fileOut.v[1].flight_date.s
ApiDateOut == apiOut.v[1].flight_date.s

\* C16 (as claimed): in the file path a YYYY-MM-DD string maps to itself; YYYY/M/D, M/D/YYYY
\* and M-D-YYYY (month first) map to YYYY-MM-DD with month and day zero-padded to two
\* digits; every other input string is returned unchanged; the record is produced.
C16_DateNormalization ==
    fileOut # NotRun =>
        /\ fileOut.ok /\ Len(fileOut.v) = 1
        /\ IsCanonicalDate(DateIn) => FileDateOut = DateIn
        /\ IsYMD(DateIn, "/") =>
              LET p == Split(DateIn, "/") IN FileDateOut = Dashed(p[1], Pad2(p[2]), Pad2(p[3]))
        /\ IsMDY(DateIn, "/") =>
              LET p == Split(DateIn, "/") IN FileDateOut = Dashed(p[3], Pad2(p[1]), Pad2(p[2]))
        /\ IsMDY(DateIn, "-") =>
              LET p == Split(DateIn, "-") IN FileDateOut = Dashed(p[3], Pad2(p[1]), Pad2(p[2]))
        /\ ~(\/ IsCanonicalDate(DateIn) \/ IsYMD(DateIn, "/")
             \/ IsMDY(DateIn, "/") \/ IsMDY(DateIn, "-")) => FileDateOut = DateIn

\* str.zfill(2) as documented: zeros are added on the left, after a leading sign, up to
\* a width of two
ZeroFilled(s) ==
    CASE Len(s) >= 2 -> s
      [] Len(s) = 1 /\ s[1] \in {"+", "-"} -> s \o <<"0">>
      [] Len(s) = 1 -> <<"0">> \o s
      [] OTHER -> <<"0", "0">>

\* the shapes the normalization goes by: ten characters with dashes after the fourth and
\* the seventh, or three parts with a part of four characters
HasIsoShape(s) == Len(s) = 10 /\ s[5] = "-" /\ s[8] = "-"
HasShape(s, c, yearAt) == LET p == Split(s, c) IN Len(p) = 3 /\ Len(p[yearAt]) = 4

\* C16 (amended): the file path first strips the whitespace around flight_date. Of the
\* stripped string, a 10-character one with '-' as 5th and 8th character (YYYY-MM-DD)
\* is kept; otherwise three '/'-separated parts with a 4-character first part (YYYY/M/D)
\* or else a 4-character third part (M/D/YYYY), or else three '-'-separated parts with
\* a 4-character third part (M-D-YYYY, month first) are rearranged to year-month-day,
\* month and day zero-filled to two characters; every other string is returned
\* stripped and otherwise unchanged; the record is produced in every case.
C16_DateNormalizationStripped ==
    fileOut # NotRun =>
        LET s == Strip(DateIn)
            bySlash == Split(s, "/")
            byDash == Split(s, "-")
            slashYear == IF HasShape(s, "/", 1) THEN 1 ELSE IF HasShape(s, "/", 3) THEN 3 ELSE 0
        IN /\ fileOut.ok /\ Len(fileOut.v) = 1
           /\ FileDateOut =
                CASE HasIsoShape(s) -> s
                  [] ~HasIsoShape(s) /\ slashYear = 1 ->
                        Dashed(bySlash[1], ZeroFilled(bySlash[2]), ZeroFilled(bySlash[3]))
                  [] ~HasIsoShape(s) /\ slashYear = 3 ->
                        Dashed(bySlash[3], ZeroFilled(bySlash[1]), ZeroFilled(bySlash[2]))
                  [] ~HasIsoShape(s) /\ slashYear = 0 /\ HasShape(s, "-", 3) ->
                        Dashed(byDash[3], ZeroFilled(byDash[1]), ZeroFilled(byDash[2]))
                  [] OTHER -> s
           \* the cases of the claim, on dates as written
           /\ IsCanonicalDate(DateIn) => FileDateOut = DateIn
           /\ IsYMD(DateIn, "/") => FileDateOut = Dashed(bySlash[1], Pad2(bySlash[2]), Pad2(bySlash[3]))
           /\ IsMDY(DateIn, "/") => FileDateOut = Dashed(bySlash[3], Pad2(bySlash[1]), Pad2(bySlash[2]))
           /\ IsMDY(DateIn, "-") => FileDateOut = Dashed(byDash[3], Pad2(byDash[1]), Pad2(byDash[2]))

\* C16 witness: ' 01-03-2024' with a leading blank came out of the file path as
\* '2024-01-03'
C16_Witness ==
    /\ DateIn = <<" ", "0", "1", "-", "0", "3", "-", "2", "0", "2", "4">>
    /\ fileOut.ok /\ Len(fileOut.v) = 1
    /\ FileDateOut = <<"2", "0", "2", "4", "-", "0", "1", "-", "0", "3">>

\* the string is a date in YYYY/MM/DD, MM/DD/YYYY or MM-DD-YYYY form
IsNonCanonicalDate(s) ==
    /\ IsYMD(s, "/") \/ IsMDY(s, "/") \/ IsMDY(s, "-")
    /\ \A i \in 1..3 : Len(Split(s, IF Contains(s, "/") THEN "/" ELSE "-")[i]) \in {2, 4}

\* C17 (as claimed): the record get_flights returns for an entry whose flight_date is in
\* a recognized non-canonical format (YYYY/MM/DD, MM/DD/YYYY or MM-DD-YYYY) carries the
\* date in canonical YYYY-MM-DD form, the same as the file path makes of it.
C17_ApiDateCanonical ==
    (apiOut # NotRun /\ IsObj(rawEntry) /\ IsStr(rawEntry.flight_date)
        /\ IsNonCanonicalDate(DateIn)) =>
            /\ apiOut.ok /\ Len(apiOut.v) = 1
            /\ IsCanonicalDate(ApiDateOut)
            /\ ApiDateOut = NormalizeDateFormat(DateIn)

----------------------------------------------------------------------------
(* Claims about arrival_delay *)

\* the entry gives no arrival delay: arrival.delay is null or absent
NoDelayGiven(e) ==
    /\ IsObj(e)
    /\ \/ e.arrival.t = "absent"
       \/ IsObj(e.arrival) /\ e.arrival.delay.t \in {"absent", "null"}

\* the category of an entry with a delay of 0: by its status alone
ZeroDelayCategory(e) ==
    IF IsStr(e.flight_status) /\ SpellsIgnoringCase(e.flight_status.s, sCancelled) THEN CANCELLED
    ELSE IF IsStr(e.flight_status) /\ SpellsIgnoringCase(e.flight_status.s, sDiverted) THEN DIVERTED
    ELSE ON_TIME

\* C18: for a (well-typed) entry whose arrival.delay is null or absent, get_flights and
\* parse_file (given its required fields) produce a record with arrival_delay 0,
\* classified as a delay of 0 is: ON_TIME, unless the status is cancelled or diverted,
\* and then CANCELLED or DIVERTED.
C18_NullDelayIsZero ==
    (WellTyped(rawEntry) /\ NoDelayGiven(rawEntry)) =>
        /\ apiOut # NotRun =>
              /\ apiOut.ok /\ Len(apiOut.v) = 1
              /\ apiOut.v[1].arrival_delay = JInt(0)
              /\ apiOut.v[1].flight_status = ZeroDelayCategory(rawEntry)
        /\ (fileOut # NotRun /\ HasRequired(rawEntry)) =>
              /\ fileOut.ok /\ Len(fileOut.v) = 1
              /\ fileOut.v[1].arrival_delay = JInt(0)
              /\ fileOut.v[1].flight_status = ZeroDelayCategory(rawEntry)

\* C18 witness: a landed entry whose arrival.delay is null came out of both paths as
\* ON_TIME with arrival_delay 0
C18_Witness ==
    /\ WellTyped(rawEntry) /\ HasRequired(rawEntry)
    /\ rawEntry.arrival.delay = JNull
    /\ rawEntry.flight_status = JStr(sLanded)
    /\ apiOut.ok /\ Len(apiOut.v) = 1
    /\ apiOut.v[1].arrival_delay = JInt(0) /\ apiOut.v[1].flight_status = ON_TIME
    /\ fileOut.ok /\ Len(fileOut.v) = 1
    /\ fileOut.v[1].arrival_delay = JInt(0) /\ fileOut.v[1].flight_status = ON_TIME

\* C19 (as claimed): every record get_flights or parse_file returns has
\* arrival_delay >= 0, for every upstream arrival.delay, negative ones included.
C19_DelayNonNegative ==
    \A r \in RecordsOf(apiOut) \cup RecordsOf(fileOut) :
        IsInt(r.arrival_delay) => r.arrival_delay.n >= 0

----------------------------------------------------------------------------
(* Claims about the summary statistics *)

\* the positions of the list whose record has one of the statuses
Positions(statuses) == {i \in 1..Len(sumRecords) : sumRecords[i].flight_status \in statuses}

\* the sum of arrival_delay over a set of positions of the list
RECURSIVE DelayOver(_)
DelayOver(P) ==
    IF P = {} THEN 0
    ELSE LET i == CHOOSE i \in P : TRUE
         IN sumRecords[i].arrival_delay.n + DelayOver(P \ {i})

\* C20: for every list of FlightRecord, _generate_summary_stats returns total = the
\* number of records, on_time = the number with status ON_TIME, delayed = the number
\* with status MINOR_DELAY, MAJOR_DELAY or SEVERE_DELAY, cancelled = the number with
\* status CANCELLED, and an average delay equal to the sum of arrival_delay over the
\* records whose status is not CANCELLED divided by their number, or 0 when there is none.
C20_SummaryStats ==
    sumStats # NotRun =>
        LET st == sumStats.v
            counted == Positions(DelayCategory \ {CANCELLED})
        IN /\ sumStats.ok
           /\ st.total = Len(sumRecords)
           /\ st.on_time = Cardinality(Positions({ON_TIME}))
           /\ st.delayed = Cardinality(Positions({MINOR_DELAY, MAJOR_DELAY, SEVERE_DELAY}))
           /\ st.cancelled = Cardinality(Positions({CANCELLED}))
           /\ st.avg_delay.den > 0
           /\ IF counted = {} THEN st.avg_delay.num = 0
              ELSE st.avg_delay.num * Cardinality(counted) = DelayOver(counted) * st.avg_delay.den

\* C20 witness: the summary of a cancelled record carrying 45 minutes, a minor delay of
\* 30 and a diverted record averages 30 + 0 over two records
C20_Witness ==
    /\ sumRecords = <<SummaryRecord(CANCELLED, 45), SummaryRecord(MINOR_DELAY, 30),
                      SummaryRecord(DIVERTED, 0)>>
    /\ sumStats.ok
    /\ sumStats.v.total = 3 /\ sumStats.v.on_time = 0
    /\ sumStats.v.delayed = 1 /\ sumStats.v.cancelled = 1
    /\ sumStats.v.avg_delay = Quotient(30, 2)

----------------------------------------------------------------------------
(* The retry loop: its end, unexpected failures, the HTTP client of an attempt *)

\* C24: for every configured max_retries, a call of get_flights never ends in the
\* statement after the loop, `raise RuntimeError("Unexpected end of retry loop")`.
C24_TrailingGuardUnreachable == raisedExc.type # "RuntimeError"

\* the attempt failed in a way the generic `except Exception` block handles: an exception
\* of client.get that is neither a status nor a connection error, or a 2xx response whose
\* body is not JSON, not a JSON object, or an object get_flights cannot take the length of
Unexpected(ev) ==
    /\ IsAttempt(ev)
    /\ \/ ev.kind = "other"
       \/ /\ ev.kind = "status" /\ ev.code \in 200..299
          /\ \/ ev.body.t # "obj"
             \/ ev.body.data.t = "null"

\* the exception an attempt ended with, as the caller would see it
FailureOf(ev) ==
    IF ev.kind = "connect" THEN Exc("ConnectError", 0, ev.i)
    ELSE IF ev.kind = "other" THEN Exc("ReadTimeout", 0, ev.i)
    ELSE IF ~(ev.code \in 200..299) THEN Exc("HTTPStatusError", ev.code, ev.i)
    ELSE IF ev.body.t = "invalid" THEN Exc("JSONDecodeError", 0, ev.i)
    ELSE IF ev.body.t # "obj" THEN Exc("AttributeError", 0, ev.i)
    ELSE Exc("TypeError", 0, ev.i)

\* C25: an unexpected failure during an attempt is never turned into a returned list.
\* At an index i < max_retries - 1 it is followed by a sleep of 2^i seconds and, once
\* the call has ended, by another attempt; at the final index it ends the call, which
\* re-raises that same exception and returns nothing.
C25_UnexpectedFailure ==
    \A k \in 1..Len(events) :
        Unexpected(events[k]) =>
            IF events[k].i < max_retries - 1
            THEN /\ k < Len(events)
                 /\ events[k + 1] = SleepEvent(events[k].i, 2 ^ events[k].i)
                 /\ Ended => /\ k + 2 <= Len(events)
                             /\ IsAttempt(events[k + 2])
                             /\ events[k + 2].i = events[k].i + 1
            ELSE /\ k = Len(events)
                 /\ pc = "raised"
                 /\ result = NoResult
                 /\ raisedExc = FailureOf(events[k])

\* a call whose first attempt got a body that is not JSON, slept, and whose final attempt
\* got a top-level list re-raised the AttributeError
C25_Witness ==
    /\ pc = "raised"
    /\ max_retries = 2
    /\ Len(events) = 3
    /\ Unexpected(events[1]) /\ events[1].body.t = "invalid"
    /\ Unexpected(events[3]) /\ events[3].body.t = "list"
    /\ raisedExc = Exc("AttributeError", 0, 1)

\* C26: each attempt opens its own HTTP client and closes it before the attempt ends: at
\* most one client is open, none is open during a backoff sleep (after a 429 response as
\* well as after an error), and none is open once the call has returned or raised.
C26_ClientScopedToAttempt ==
    /\ clientOpen \in {0, 1}
    /\ pc \in {"sleep429", "sleepErr"} => clientOpen = 0
    /\ Ended => clientOpen = 0

\* C29: when the attempts of a call fail, the exception raised is that of the final
\* attempt, the one with index max_retries - 1, with its type and status code; every
\* earlier failure is followed by its backoff sleep and never raised.
C29_LastFailureRaised ==
    (pc = "raised" /\ NumAttempts >= 1) =>
        LET n == Len(events)
        IN /\ IsAttempt(events[n])
           /\ events[n].i = max_retries - 1
           /\ raisedExc = FailureOf(events[n])
           /\ \A k \in 1..(n - 1) :
                  IsAttempt(events[k]) =>
                      /\ events[k].i < max_retries - 1
                      /\ events[k + 1] = SleepEvent(events[k].i, 2 ^ events[k].i)

\* three attempts failed in three ways (connection error, 429, 500); HTTPStatusError 500 is raised
C29_Witness ==
    /\ pc = "raised"
    /\ NumAttempts = 3
    /\ Attempts[1].kind = "connect"
    /\ Attempts[2].kind = "status" /\ Attempts[2].code = 429
    /\ Attempts[3].kind = "status" /\ Attempts[3].code = 500
    /\ raisedExc = Exc("HTTPStatusError", 500, 2)

----------------------------------------------------------------------------
(* Normalizing a normalized date again *)

RuleFor(s) ==
    IF HasIsoShape(s) THEN 0
    ELSE IF HasShape(s, "/", 1) THEN 1
    ELSE IF HasShape(s, "/", 3) THEN 2
    ELSE IF HasShape(s, "-", 3) THEN 3
    ELSE 0
MonthAndDay(s) ==
    CASE RuleFor(s) = 1 -> <<Split(s, "/")[2], Split(s, "/")[3]>>
      [] RuleFor(s) = 2 -> <<Split(s, "/")[1], Split(s, "/")[2]>>
      [] RuleFor(s) = 3 -> <<Split(s, "-")[1], Split(s, "-")[2]>>
      [] OTHER -> <<>>

----------------------------------------------------------------------------
(* The two paths classify alike *)

\* the entry has the four identifiers and an arrival delay that is an integer or null
AcceptedByBoth(e) ==
    /\ IsObj(e)
    /\ HasRequired(e)
    /\ e.arrival.delay.t \in {"int", "null"}

\* C27: for every raw entry that both normalization paths accept (the four identifiers
\* present and non-empty, the arrival delay an integer or null; the status a string or
\* missing), both produce a record and the flight_status of the parse_file record equals
\* that of the get_flights record; the two _determine_delay_category routines return
\* the same category for every (status, integer delay) pair.
C27_PathsAgreeOnStatus ==
    /\ (AcceptedByBoth(rawEntry) /\ apiOut # NotRun /\ fileOut # NotRun
           /\ rawEntry.flight_status.t \in {"absent", "str"}) =>
          /\ apiOut.ok /\ Len(apiOut.v) = 1
          /\ fileOut.ok /\ Len(fileOut.v) = 1
          /\ fileOut.v[1].flight_status = apiOut.v[1].flight_status
    /\ (AcceptedByBoth(rawEntry) /\ apiOut # NotRun /\ fileOut # NotRun
           /\ apiOut.ok /\ fileOut.ok /\ Len(apiOut.v) = 1 /\ Len(fileOut.v) = 1) =>
          fileOut.v[1].flight_status = apiOut.v[1].flight_status
    /\ (IsInt(clsDelay) /\ clsClient # NotRun /\ clsParser # NotRun) =>
          /\ clsClient.ok /\ clsParser.ok
          /\ clsClient.v = clsParser.v

\* an entry "Cancelled" with a null delay went through both paths and is CANCELLED in both
C27_Witness ==
    /\ AcceptedByBoth(rawEntry)
    /\ rawEntry.flight_status = JStr(sCancelledMixed)
    /\ rawEntry.arrival.delay = JNull
    /\ apiOut.ok /\ fileOut.ok
    /\ apiOut.v[1].flight_status = CANCELLED
    /\ fileOut.v[1].flight_status = CANCELLED

----------------------------------------------------------------------------
(* Calls on one client *)

\* C28: get_flights keeps no state between calls. After any earlier calls, returned or
\* raised, a call starts at attempt index 0, its first backoff is 1 second, it has the
\* full budget (it makes at most max_retries attempts, and exactly max_retries when it
\* raises), and no step of any call changes the settings.
C28_CallsAreIndependent ==
    /\ [](events # <<>> => IsAttempt(events[1]) /\ events[1].i = 0)
    /\ [](Len(Sleeps) >= 1 => Sleeps[1].secs = 1)
    /\ [](NumAttempts <= max_retries)
    /\ [](pc = "raised" => NumAttempts = max_retries)
    /\ [](\A k \in 1..NumAttempts : Attempts[k].i = k - 1)
    /\ [][max_retries' = max_retries]_vars

\* a later call on a client with max_retries = 2 slept 1 second after its first attempt
\* and raised after its second
C28_Witness ==
    /\ callsLeft <= MaxCalls - 2
    /\ max_retries = 2
    /\ pc = "raised"
    /\ NumAttempts = 2
    /\ Sleeps[1].secs = 1

----------------------------------------------------------------------------
(* The fetch command *)

\* C21: whenever get_flights raises (a status error, 401 and 429 included, a connection
\* error or any other exception) fetch exits with a non-zero code, writes no output file
\* and prints no table; whenever get_flights returns a list, fetch exits with code 0,
\* even if saving the file fails.
C21_ExitCodes ==
    /\ (cpc \in {"fetching", "exited"} /\ pc = "raised") =>
          /\ ~cliOut.saved /\ cliOut.save = "none"
          /\ ~cliOut.table
          /\ cpc = "exited" => exitCode # 0
    /\ (cpc = "exited" /\ pc = "returned") => exitCode = 0

\* the string is a calendar date written YYYY-MM-DD
IsDateYMD(s) ==
    /\ Len(s) = 10 /\ s[5] = "-" /\ s[8] = "-"
    /\ AllDigits(SubSeq(s, 1, 4)) /\ AllDigits(SubSeq(s, 6, 7)) /\ AllDigits(SubSeq(s, 9, 10))
    /\ NumberOf(SubSeq(s, 1, 4)) >= 1
    /\ NumberOf(SubSeq(s, 6, 7)) \in 1..12
    /\ NumberOf(SubSeq(s, 9, 10)) \in
           1..DaysInMonth(NumberOf(SubSeq(s, 1, 4)), NumberOf(SubSeq(s, 6, 7)))

\* C22: when --flight-date is not a valid calendar date in YYYY-MM-DD format, fetch
\* exits with a non-zero code before loading settings, constructing the API client or
\* issuing any HTTP request; in every invocation get_flights is called at most once.
C22_InvalidDateRejected ==
    /\ ~IsDateYMD(cliDate) =>
          /\ cpc \in {"start", "exited"}
          /\ cpc = "exited" => exitCode # 0
          /\ ~cliOut.settings /\ ~cliOut.client
          /\ cliOut.calls = 0 /\ events = <<>>
    /\ cliOut.calls <= 1

\* C23: with no access key configured (an empty environment and no .env file),
\* constructing Settings fails, and fetch exits with a non-zero code and a configuration
\* error without making any HTTP request.
C23_MissingKeyFails ==
    cliEnv = NoEnv =>
        /\ ~cliOut.settings /\ ~cliOut.client
        /\ cliOut.calls = 0 /\ events = <<>>
        /\ cpc \in {"start", "settings", "exited"}
        /\ cpc = "exited" =>
              /\ exitCode # 0
              /\ Strptime(cliDate) => cliOut.msg = "Configuration error"

====
